---- MODULE Spec2Model ----
(***************************************************************************)
(* Model of the example scripts of langchain-init: the LangGraph           *)
(* pipelines multi_step_reasoning.py, research_assistant.py,               *)
(* code_reviewer.py, conditional_workflow.py, simple_agent.py,             *)
(* chat_with_tools.py and creative_writing.py, the LangChain chains        *)
(* simple_chat.py, streaming_chat.py, conversation_memory.py and           *)
(* document_qa.py, and the console loop of each script's main().  Texts    *)
(* are TLA+ strings handled character by character, the way the Python     *)
(* string methods handle them.                                             *)
(***************************************************************************)
EXTENDS Integers, Sequences, FiniteSets, TLC

VARIABLES
    example,     \* which example script is running
    active,      \* nodes scheduled for the next step of the compiled graph
    status,      \* "running", "done" (END reached) or "error" (invoke raised)
    error,       \* "" or the kind of exception that ended the run
    state,       \* the state record threaded through the nodes
    trace,       \* history: the nodes that have run (fragments streamed), in order
    step_calls,  \* history: text-generation calls made by the loop's step stage
    console,     \* main's position: "prompt" (at input()), "invoking", "exited"
    input_line,  \* the line the last input() returned
    requests,    \* history: how many lines input() has returned
    printed,     \* what main printed last for a line (all of it while streaming)
    conversation_state,  \* what main keeps between turns (chat, memory examples)
    arguments,   \* the arguments of the tool or of load_document called on its own
    files        \* the file system: what each path holds

loop_vars == <<console, input_line, requests, printed, conversation_state>>

call_vars == <<arguments, files>>

vars == <<example, active, status, error, state, trace, step_calls,
          console, input_line, requests, printed, conversation_state, arguments, files>>

-----------------------------------------------------------------------------
(* Bounds *)

MaxPlanned == 6

-----------------------------------------------------------------------------
(* Python string methods, character by character *)

Char(s, i) == SubSeq(s, i, i)

Whitespace == {" ", "\t", "\n", "\r"}

DecimalChars == {"0", "1", "2", "3", "4", "5", "6", "7", "8", "9"}

\* str.isdigit() also accepts digit characters that int() rejects, such as
\* the superscript two.
DigitChars == DecimalChars \cup {"²"}

UpperAlphabet == "ABCDEFGHIJKLMNOPQRSTUVWXYZ"

LowerAlphabet == "abcdefghijklmnopqrstuvwxyz"

RECURSIVE LStripChars(_, _)
LStripChars(s, cs) ==
    IF Len(s) > 0 /\ Char(s, 1) \in cs THEN LStripChars(Tail(s), cs) ELSE s

RECURSIVE RStripChars(_, _)
RStripChars(s, cs) ==
    IF Len(s) > 0 /\ Char(s, Len(s)) \in cs
    THEN RStripChars(SubSeq(s, 1, Len(s) - 1), cs)
    ELSE s

Strip(s) == RStripChars(LStripChars(s, Whitespace), Whitespace)

StartsWith(s, p) == Len(s) >= Len(p) /\ SubSeq(s, 1, Len(p)) = p

Find(s, sub) ==
    LET hits == {i \in 1..(Len(s) - Len(sub) + 1) : SubSeq(s, i, i + Len(sub) - 1) = sub}
    IN  IF hits = {} THEN 0 ELSE CHOOSE i \in hits : \A j \in hits : i <= j

Contains(s, sub) == Find(s, sub) > 0

RECURSIVE Split(_, _)
Split(s, sep) ==
    LET i == Find(s, sep)
    IN  IF i = 0 THEN <<s>>
        ELSE <<SubSeq(s, 1, i - 1)>> \o Split(SubSeq(s, i + Len(sep), Len(s)), sep)

\* s.split(sep, 1)[1]: everything after the first separator
AfterFirst(s, sep) == SubSeq(s, Find(s, sep) + Len(sep), Len(s))

RECURSIVE SplitWhitespace(_)
SplitWhitespace(s) ==
    LET t == LStripChars(s, Whitespace)
        ends == {i \in 1..Len(t) : Char(t, i) \in Whitespace}
        n == IF ends = {} THEN Len(t) + 1 ELSE CHOOSE i \in ends : \A j \in ends : i <= j
    IN  IF t = "" THEN <<>>
        ELSE <<SubSeq(t, 1, n - 1)>> \o SplitWhitespace(SubSeq(t, n, Len(t)))

RECURSIVE Replace(_, _, _)
Replace(s, old, new) ==
    LET i == Find(s, old)
    IN  IF i = 0 THEN s
        ELSE SubSeq(s, 1, i - 1) \o new \o Replace(SubSeq(s, i + Len(old), Len(s)), old, new)

RECURSIVE Lower(_)
Lower(s) ==
    LET i == Find(UpperAlphabet, Head(s))
    IN  IF s = "" THEN ""
        ELSE (IF i = 0 THEN Head(s) ELSE Char(LowerAlphabet, i)) \o Lower(Tail(s))

RECURSIVE IntValue(_)
IntValue(s) ==
    IF s = "" THEN 0
    ELSE IntValue(SubSeq(s, 1, Len(s) - 1)) * 10 + (Find("0123456789", Char(s, Len(s))) - 1)

\* numbers = [int(s) for s in line.split() if s.isdigit()]
\* int() raises ValueError on a token that isdigit() accepted but that is not
\* a decimal number; then the whole comprehension raises.
Numbers(line) ==
    LET IsDigit(tok) == Len(tok) > 0 /\ \A i \in 1..Len(tok) : Char(tok, i) \in DigitChars
        IsDecimal(tok) == Len(tok) > 0 /\ \A i \in 1..Len(tok) : Char(tok, i) \in DecimalChars
        toks == SelectSeq(SplitWhitespace(line), IsDigit)
    IN  IF \E i \in 1..Len(toks) : ~IsDecimal(toks[i])
        THEN [raised |-> TRUE, values |-> <<>>]
        ELSE [raised |-> FALSE, values |-> [i \in 1..Len(toks) |-> IntValue(toks[i])]]

-----------------------------------------------------------------------------
(* Python dict, kept in insertion order as a sequence of key/value entries *)

DictKeys(d) == {d[i].key : i \in 1..Len(d)}

\* d[k] = v
DictSet(d, k, v) ==
    IF k \in DictKeys(d)
    THEN [i \in 1..Len(d) |-> IF d[i].key = k THEN [key |-> k, value |-> v] ELSE d[i]]
    ELSE Append(d, [key |-> k, value |-> v])

-----------------------------------------------------------------------------
(* Texts the text-generation call can return *)

PlanTexts ==
    LET PlanLine(i) == Char("0123456789", i + 1) \o ". s" \o Char("0123456789", i + 1)
        RECURSIVE NumberedList(_)
        NumberedList(n) ==
            IF n = 0 THEN ""
            ELSE IF n = 1 THEN PlanLine(1)
            ELSE NumberedList(n - 1) \o "\n" \o PlanLine(n)
    IN  {NumberedList(n) : n \in 0..MaxPlanned}
        \cup {"Here is my plan", "- alpha\n  - beta.", "1."}

StepResults == {"", "r"}

SynthesisTexts ==
    {"FINAL ANSWER: 270 miles\n\nCONFIDENCE: High - checked",
     "The answer is 270 miles", "", "CONFIDENCE:",
     "FINAL ANSWER:\nCONFIDENCE: Low"}

RecommendationTexts ==
    {"Do X.\nConfidence: 8 out of 10", "CONFIDENCE ASSESSMENT: 0", "my confidence is 42",
     "Confidence: 8/10", "Confidence: high", "", "4. CONFIDENCE ASSESSMENT: 9 3",
     "Confidence: -5", "Confidence in the n² bound: ²"}

ReviewTexts ==
    {"ISSUES: None found\nSEVERITY: Low\nSCORE: 8", "SCORE: 15", "SCORE: -3",
     "SCORE: 8/10", "SCORE: 0", "SCORE: 6 out of 10", "SCORE:9", "",
     "Looks fine, 9 of 10.", " SCORE: 3", "SCORE: 3\nSCORE: 12", "SCORE: ² of 10",
     "score: 5", "SCORE: 100 5", "SCORE: 4.5", "SCORE: 10/10 (10 of 10)"}

LanguageTexts == {" Python\n"}

AnalysisTexts ==
    {"Content Type: question\nSentiment: positive\nComplexity: simple",
     "Content Type: Request\nSentiment: neutral\nComplexity: complex",
     "Content Type: complaint\nSentiment: negative",
     "Content Type: compliment", "Content Type: information", "Content Type: other",
     "Content Type: poem\nSentiment: mixed\nComplexity: huge",
     "Content Type:\nSentiment:", "", "I think this is a question"}

HandlerResponses == {"", "resp"}

ClassificationTexts ==
    {"question", " Creative\n", "technical", "MATH", "", "poetry", "The category is math"}

ToolAnalysisTexts ==
    {"NEEDS_TOOL: yes\nTOOL_NAME: calculator\nREASONING: math",
     "NEEDS_TOOL: no\nTOOL_NAME: none", "NEEDS_TOOL: YES\nTOOL_NAME: Reverse_Text",
     "NEEDS_TOOL: yes\nTOOL_NAME: weather", "NEEDS_TOOL: yes", "TOOL_NAME: datetime",
     "", "Sure, happy to chat!", "NEEDS_TOOL: maybe\nTOOL_NAME:"}

\* replies to the extraction prompts of execute_tool
ExtractionTexts ==
    {"5+3", " 2^3 ", "10*4-2", "15/3", "1/0", "7/2", "(1+2)*-3", "five plus three",
     "five", "", "exit()", "hello world"}

\* what the clock can read when datetime_tool runs
Timestamps == {"2024-01-01 09:30:00", "2024-12-31 23:59:59"}

CreativeAnalysisTexts ==
    {"Content Type: Poem\nTarget Length: short\nTarget Audience: children\nTone: humorous",
     "", "Content Type:\nTone: dark", "This looks like a story"}

-----------------------------------------------------------------------------
(* multi_step_reasoning.py *)

RECURSIVE ParseSteps(_)
ParseSteps(lines) ==
    IF lines = <<>> THEN <<>>
    ELSE LET stripped == Strip(Head(lines))
             step_text == IF Contains(stripped, ".")
                          THEN Strip(AfterFirst(stripped, "."))
                          ELSE stripped
         IN  IF stripped # "" /\ (Char(stripped, 1) \in DigitChars \/ StartsWith(stripped, "-"))
             THEN <<[description |-> step_text, result |-> "", status |-> "pending"]>>
                      \o ParseSteps(Tail(lines))
             ELSE ParseSteps(Tail(lines))

analyze_problem(st, analysis) ==
    [st EXCEPT !.reasoning_steps = ParseSteps(Split(analysis, "\n")),
               !.current_step = 0]

\* mutant: the result always stored in the first step
execute_reasoning_step_first(st, result) ==
    IF st.current_step >= Len(st.reasoning_steps) THEN st
    ELSE [st EXCEPT !.reasoning_steps[1] =
                        [@ EXCEPT !.result = result, !.status = "completed"]]

execute_reasoning_step(st, result) ==
    IF st.current_step >= Len(st.reasoning_steps) THEN st
    ELSE [st EXCEPT !.reasoning_steps[st.current_step + 1] =
                        [@ EXCEPT !.result = result, !.status = "completed"]]

\* mutant: the cursor assigned instead of incremented
advance_step_reset(st) == [st EXCEPT !.current_step = 1]

advance_step(st) == [st EXCEPT !.current_step = @ + 1]

synthesize_answer(st, synthesis) ==
    LET RECURSIVE SynthesisFields(_, _)
        SynthesisFields(lines, acc) ==
            IF lines = <<>> THEN acc
            ELSE LET line == Head(lines)
                 IN  SynthesisFields(Tail(lines),
                         IF StartsWith(line, "FINAL ANSWER:")
                         THEN [acc EXCEPT !.final_answer =
                                              Strip(Replace(line, "FINAL ANSWER:", ""))]
                         ELSE IF StartsWith(line, "CONFIDENCE:")
                         THEN [acc EXCEPT !.confidence =
                                              Strip(Replace(line, "CONFIDENCE:", ""))]
                         ELSE acc)
        parsed == SynthesisFields(Split(synthesis, "\n"),
                                  [final_answer |-> "", confidence |-> ""])
    IN  [st EXCEPT !.final_answer = IF parsed.final_answer # "" THEN parsed.final_answer
                                    ELSE synthesis,
                   !.confidence = IF parsed.confidence # "" THEN parsed.confidence
                                  ELSE "Medium - Complete analysis performed"]

\* mutant: the loop test written with <= instead of <
should_continue_reasoning_inclusive(st) ==
    IF st.current_step <= Len(st.reasoning_steps) THEN "execute_step" ELSE "synthesize"

should_continue_reasoning(st) ==
    IF st.current_step < Len(st.reasoning_steps) THEN "execute_step" ELSE "synthesize"

ReasoningInitialState ==
    [original_problem |-> "problem", reasoning_steps |-> <<>>, current_step |-> 0,
     final_answer |-> "", confidence |-> ""]

-----------------------------------------------------------------------------
(* research_assistant.py *)

QuestionLimit == 5

RECURSIVE ParseQuestions(_)
ParseQuestions(lines) ==
    IF lines = <<>> THEN <<>>
    ELSE LET line == Strip(Head(lines))
             question == IF Contains(line, ".")
                         THEN Strip(AfterFirst(line, "."))
                         ELSE Strip(RStripChars(LStripChars(line, {"-", " "}), {"-", " "}))
         IN  IF line # "" /\ (Char(line, 1) \in DigitChars \/ StartsWith(line, "-"))
                /\ question # ""
             THEN <<question>> \o ParseQuestions(Tail(lines))
             ELSE ParseQuestions(Tail(lines))

\* mutant: every parsed question kept
generate_research_questions_unlimited(st, response) ==
    [st EXCEPT !.research_questions = ParseQuestions(Split(response, "\n")),
               !.current_question_index = 0,
               !.findings = <<>>]

generate_research_questions(st, response) ==
    LET questions == ParseQuestions(Split(response, "\n"))
    IN  [st EXCEPT !.research_questions = SubSeq(questions, 1, IF QuestionLimit < Len(questions)
                                                              THEN QuestionLimit
                                                              ELSE Len(questions)),
                   !.current_question_index = 0,
                   !.findings = <<>>]

\* mutant: the guard written with > instead of >=
research_question_late_guard(st, finding) ==
    IF st.current_question_index > Len(st.research_questions) THEN st
    ELSE [st EXCEPT !.findings =
              Append(@, [question |-> IF st.current_question_index < Len(st.research_questions)
                                      THEN st.research_questions[st.current_question_index + 1]
                                      ELSE "",
                         finding |-> finding,
                         index |-> st.current_question_index])]

\* mutant: the question popped off the list when it is researched
research_question_consuming(st, finding) ==
    IF st.current_question_index >= Len(st.research_questions) THEN st
    ELSE [st EXCEPT !.findings =
              Append(@, [question |-> st.research_questions[st.current_question_index + 1],
                         finding |-> finding,
                         index |-> st.current_question_index]),
                    !.research_questions = Tail(@)]

research_question(st, finding) ==
    IF st.current_question_index >= Len(st.research_questions) THEN st
    ELSE [st EXCEPT !.findings =
              Append(@, [question |-> st.research_questions[st.current_question_index + 1],
                         finding |-> finding,
                         index |-> st.current_question_index])]

advance_research(st) == [st EXCEPT !.current_question_index = @ + 1]

synthesize_findings(st, summary) == [st EXCEPT !.summary = summary]

\* The loop of generate_recommendations: the confidence after the lines, or
\* raised when int() raised on one of them.
RECURSIVE ParseConfidence(_, _)
ParseConfidence(lines, confidence) ==
    IF lines = <<>> THEN [raised |-> FALSE, value |-> confidence]
    ELSE LET line == Head(lines)
             numbers == Numbers(line)
             n == numbers.values[1]
         IN  IF /\ Contains(Lower(line), "confidence")
                /\ \E i \in 1..Len(line) : Char(line, i) \in DigitChars
             THEN IF numbers.raised THEN [raised |-> TRUE, value |-> confidence]
                  ELSE IF numbers.values # <<>>
                  THEN ParseConfidence(Tail(lines), IF n < 1 THEN 1 ELSE IF n > 10 THEN 10 ELSE n)
                  ELSE ParseConfidence(Tail(lines), confidence)
             ELSE ParseConfidence(Tail(lines), confidence)

generate_recommendations(st, recommendations) ==
    [st EXCEPT !.recommendations = recommendations,
               !.confidence_score = ParseConfidence(Split(recommendations, "\n"), 7).value]

should_continue_research(st) ==
    IF st.current_question_index < Len(st.research_questions)
    THEN "research_more" ELSE "synthesize"

ResearchInitialState ==
    [research_topic |-> "topic", research_questions |-> <<>>, findings |-> <<>>,
     current_question_index |-> 0, summary |-> "", recommendations |-> "",
     confidence_score |-> 0]

-----------------------------------------------------------------------------
(* code_reviewer.py *)

\* The score loop shared by the five review stages: the score after the
\* lines, or raised when int() raised on one of them.
RECURSIVE ParseScore(_, _)
ParseScore(lines, score) ==
    IF lines = <<>> THEN [raised |-> FALSE, value |-> score]
    ELSE LET line == Head(lines)
             numbers == Numbers(line)
             n == numbers.values[1]
         IN  IF /\ StartsWith(line, "SCORE:")
                /\ \E i \in 1..Len(line) : Char(line, i) \in DigitChars
             THEN IF numbers.raised THEN [raised |-> TRUE, value |-> score]
                  ELSE IF numbers.values # <<>>
                  THEN ParseScore(Tail(lines), IF n < 0 THEN 0 ELSE IF n > 10 THEN 10 ELSE n)
                  ELSE ParseScore(Tail(lines), score)
             ELSE ParseScore(Tail(lines), score)

detect_language(st, response) ==
    [st EXCEPT !.language = Lower(Strip(response)),
               !.review_stages = <<"syntax", "style", "logic", "security", "optimization">>,
               !.current_stage = 0,
               !.reviews = <<>>]

RecordReview(st, stage, review, score) ==
    [st EXCEPT !.reviews = DictSet(@, stage, [review |-> review, score |-> score, stage |-> stage])]

\* review_syntax, review_style, review_logic, review_security and
\* review_optimization: each records its review with the parsed score,
\* starting from its own default
ReviewStage(node, st, review) ==
    CASE node = "review_syntax" ->
             RecordReview(st, "syntax", review, ParseScore(Split(review, "\n"), 8).value)
      [] node = "review_style" ->
             RecordReview(st, "style", review, ParseScore(Split(review, "\n"), 7).value)
      [] node = "review_logic" ->
             RecordReview(st, "logic", review, ParseScore(Split(review, "\n"), 8).value)
      [] node = "review_security" ->
             RecordReview(st, "security", review, ParseScore(Split(review, "\n"), 9).value)
      [] node = "review_optimization" ->
             RecordReview(st, "optimization", review, ParseScore(Split(review, "\n"), 7).value)

advance_review_stage(st) == [st EXCEPT !.current_stage = @ + 1]

\* mutant: the mean rounded up
generate_final_summary_rounded_up(st, summary) ==
    LET RECURSIVE Total(_)
        Total(reviews) ==
            IF reviews = <<>> THEN 0 ELSE Head(reviews).value.score + Total(Tail(reviews))
    IN  IF st.reviews = <<>> THEN [raised |-> "ZeroDivisionError", state |-> st]
        ELSE [raised |-> "",
              state |-> [st EXCEPT !.overall_score =
                                       (Total(st.reviews) + Len(st.reviews) - 1)
                                           \div Len(st.reviews),
                                   !.final_summary = summary]]

\* total_score // len(state["reviews"]): the division raises on an empty
\* mapping; summary is the generated text
generate_final_summary(st, summary) ==
    LET RECURSIVE Total(_)
        Total(reviews) ==
            IF reviews = <<>> THEN 0 ELSE Head(reviews).value.score + Total(Tail(reviews))
    IN  IF st.reviews = <<>> THEN [raised |-> "ZeroDivisionError", state |-> st]
        ELSE [raised |-> "",
              state |-> [st EXCEPT !.overall_score = Total(st.reviews) \div Len(st.reviews),
                                   !.final_summary = summary]]

should_continue_review(st) ==
    IF st.current_stage < Len(st.review_stages) THEN "continue_review" ELSE "summarize"

ReviewInitialState ==
    [code |-> "code", language |-> "", review_stages |-> <<>>, current_stage |-> 0,
     reviews |-> <<>>, overall_score |-> 0, final_summary |-> ""]

-----------------------------------------------------------------------------
(* conditional_workflow.py *)

analyze_content(st, analysis) ==
    LET RECURSIVE AnalysisFields(_, _)
        AnalysisFields(lines, acc) ==
            IF lines = <<>> THEN acc
            ELSE LET line == Head(lines)
                     value == Lower(Strip(Split(line, ":")[2]))
                 IN  AnalysisFields(Tail(lines),
                         IF StartsWith(line, "Content Type:")
                         THEN [acc EXCEPT !.content_type = value]
                         ELSE IF StartsWith(line, "Sentiment:")
                         THEN [acc EXCEPT !.sentiment = value]
                         ELSE IF StartsWith(line, "Complexity:")
                         THEN [acc EXCEPT !.complexity = value]
                         ELSE acc)
        parsed == AnalysisFields(Split(analysis, "\n"),
                      [content_type |-> "other", sentiment |-> "neutral",
                       complexity |-> "moderate"])
    IN  [st EXCEPT !.content_type = parsed.content_type,
                   !.sentiment = parsed.sentiment,
                   !.complexity = parsed.complexity,
                   !.processing_path = <<"analysis">>]

\* handle_question .. handle_other: the key the handler writes in results and
\* the name it appends to processing_path
HandlerNames ==
    {"handle_question", "handle_request", "handle_complaint", "handle_compliment",
     "handle_information", "handle_other"}

handle_content(st, handler, response) ==
    LET HandlerKind == SubSeq(handler, Len("handle_") + 1, Len(handler))
    IN  [st EXCEPT !.results = DictSet(@, HandlerKind \o "_response", response),
                   !.processing_path = Append(@, HandlerKind \o "_handler")]

\* mutant: every sentiment but positive answered in the empathetic tone
apply_sentiment_filter_empathetic(st) ==
    LET RECURSIVE FirstTruthy(_)
        FirstTruthy(d) ==
            IF d = <<>> THEN ""
            ELSE IF Head(d).value # "" THEN Head(d).value
            ELSE FirstTruthy(Tail(d))
        main_response == FirstTruthy(st.results)
    IN  [st EXCEPT !.final_output =
                       IF st.sentiment = "positive"
                       THEN "I'm glad to help with this! " \o main_response
                       ELSE "I understand this might be frustrating. " \o main_response,
                   !.processing_path = Append(@, "sentiment_filter")]

apply_sentiment_filter(st) ==
    LET RECURSIVE FirstTruthy(_)
        FirstTruthy(d) ==
            IF d = <<>> THEN ""
            ELSE IF Head(d).value # "" THEN Head(d).value
            ELSE FirstTruthy(Tail(d))
        main_response == FirstTruthy(st.results)
    IN  [st EXCEPT !.final_output =
                       IF st.sentiment = "negative"
                       THEN "I understand this might be frustrating. " \o main_response
                       ELSE IF st.sentiment = "positive"
                       THEN "I'm glad to help with this! " \o main_response
                       ELSE main_response,
                   !.processing_path = Append(@, "sentiment_filter")]

content_routing_map ==
    [question |-> "handle_question", request |-> "handle_request",
     complaint |-> "handle_complaint", compliment |-> "handle_compliment",
     information |-> "handle_information", other |-> "handle_other"]

\* mutant: the map indexed without a default
route_by_content_type_no_default(st) ==
    IF st.content_type \in DOMAIN content_routing_map
    THEN content_routing_map[st.content_type]
    ELSE "handle_" \o st.content_type

route_by_content_type(st) ==
    IF st.content_type \in DOMAIN content_routing_map
    THEN content_routing_map[st.content_type]
    ELSE "handle_other"

should_apply_sentiment_filter(st) == "apply_sentiment"

ConditionalInitialState ==
    [input_text |-> "input", content_type |-> "", sentiment |-> "", complexity |-> "",
     processing_path |-> <<>>, results |-> <<>>, final_output |-> ""]

-----------------------------------------------------------------------------
(* simple_agent.py *)

classify_query(st, response) ==
    [st EXCEPT !.query_type = Lower(Strip(response)), !.current_step = "classified"]

AgentHandlers ==
    [handle_question |-> "answered", handle_creative |-> "created",
     handle_technical |-> "explained", handle_math |-> "solved"]

handle_query(st, handler, response) ==
    [st EXCEPT !.response = response, !.current_step = AgentHandlers[handler]]

query_routing_map ==
    [question |-> "handle_question", creative |-> "handle_creative",
     technical |-> "handle_technical", math |-> "handle_math"]

\* mutant: every query sent to the first handler
route_query_fixed(st) == "handle_question"

route_query(st) ==
    IF st.query_type \in DOMAIN query_routing_map
    THEN query_routing_map[st.query_type]
    ELSE "handle_question"

AgentInitialState ==
    [messages |-> <<"input">>, query_type |-> "", response |-> "", current_step |-> "start"]

-----------------------------------------------------------------------------
(* chat_with_tools.py: the parsing stage *)

AVAILABLE_TOOLS == {"calculator", "random_number", "datetime", "word_count", "reverse_text"}

\* mutant: the tool name taken without the test against the registry
analyze_user_input_unchecked(st, analysis) ==
    LET RECURSIVE ToolFields(_, _)
        ToolFields(lines, acc) ==
            IF lines = <<>> THEN acc
            ELSE LET line == Head(lines)
                 IN  ToolFields(Tail(lines),
                         IF StartsWith(line, "NEEDS_TOOL:")
                         THEN [acc EXCEPT !.needs_tool = Contains(Lower(line), "yes")]
                         ELSE IF StartsWith(line, "TOOL_NAME:")
                         THEN [acc EXCEPT !.selected_tool = Lower(Strip(Split(line, ":")[2]))]
                         ELSE acc)
        parsed == ToolFields(Split(analysis, "\n"),
                             [needs_tool |-> FALSE, selected_tool |-> "none"])
    IN  [st EXCEPT !.needs_tool = parsed.needs_tool, !.selected_tool = parsed.selected_tool]

analyze_user_input(st, analysis) ==
    LET RECURSIVE ToolFields(_, _)
        ToolFields(lines, acc) ==
            IF lines = <<>> THEN acc
            ELSE LET line == Head(lines)
                     tool_name == Lower(Strip(Split(line, ":")[2]))
                 IN  ToolFields(Tail(lines),
                         IF StartsWith(line, "NEEDS_TOOL:")
                         THEN [acc EXCEPT !.needs_tool = Contains(Lower(line), "yes")]
                         ELSE IF StartsWith(line, "TOOL_NAME:") /\ tool_name \in AVAILABLE_TOOLS
                         THEN [acc EXCEPT !.selected_tool = tool_name]
                         ELSE acc)
        parsed == ToolFields(Split(analysis, "\n"),
                             [needs_tool |-> FALSE, selected_tool |-> "none"])
    IN  [st EXCEPT !.needs_tool = parsed.needs_tool, !.selected_tool = parsed.selected_tool]

ChatInitialState ==
    [messages |-> <<[role |-> "assistant", content |-> "Hello!"]>>,
     available_tools |-> <<"calculator", "random_number", "datetime", "word_count", "reverse_text">>,
     tool_results |-> <<>>, conversation_context |-> "", needs_tool |-> FALSE,
     selected_tool |-> "", user_input |-> "input", response |-> ""]

-----------------------------------------------------------------------------
(* chat_with_tools.py: the tools.  eval() is modelled on the expressions    *)
(* calculator_tool is meant for: integer literals, + - * / // **, unary     *)
(* signs, parentheses and names.  A value is the rational n/d; f tells a    *)
(* float from an int.  Anything else evaluates to "Unmodelled", and no      *)
(* expression text used below does.                                         *)

\* str(n) of an int
IntToStr(n) ==
    LET RECURSIVE NatToStr(_)
        NatToStr(k) ==
            IF k < 10 THEN Char("0123456789", k + 1)
            ELSE NatToStr(k \div 10) \o Char("0123456789", (k % 10) + 1)
    IN  IF n < 0 THEN "-" \o NatToStr(-n) ELSE NatToStr(n)

\* text[::-1]
RECURSIVE Reverse(_)
Reverse(s) == IF s = "" THEN "" ELSE Reverse(Tail(s)) \o Char(s, 1)

\* eval(source): the value, or the exception raised (err, with its message)
Eval(source) ==
    LET Value(n, d, f) == [err |-> "", msg |-> "", n |-> n, d |-> d, f |-> f]
        Error(kind, msg) == [err |-> kind, msg |-> msg, n |-> 0, d |-> 1, f |-> FALSE]
        InvalidSyntax == Error("SyntaxError", "invalid syntax (<string>, line 1)")
        Unmodelled == Error("Unmodelled", "")
        \* names bound where eval runs (builtins, the module's globals, the
        \* parameter): their values are outside the model, except exit and quit
        BoundNames ==
            {"exit", "quit", "abs", "len", "int", "float", "str", "min", "max", "sum",
             "pow", "round", "print", "input", "open", "eval", "exec", "expression",
             "random", "math", "datetime", "True", "False", "None", "and", "or", "not",
             "in", "is", "if", "else", "for", "lambda"}
        IsLetter(c) == Find(UpperAlphabet, c) > 0 \/ Find(LowerAlphabet, c) > 0 \/ c = "_"
        \* length of the longest prefix of s made of digits (kind "num") or
        \* of letters and digits (kind "name")
        RECURSIVE RunLength(_, _)
        RunLength(s, kind) ==
            IF s = "" THEN 0
            ELSE IF Char(s, 1) \in DecimalChars \/ (kind = "name" /\ IsLetter(Char(s, 1)))
            THEN 1 + RunLength(Tail(s), kind)
            ELSE 0
        \* "?" stands for a character that makes any text a syntax error,
        \* "~" for a character outside the model
        RECURSIVE Tokenize(_)
        Tokenize(s) ==
            IF s = "" THEN <<>>
            ELSE LET c == Char(s, 1)
                     n == RunLength(s, IF IsLetter(c) THEN "name" ELSE "num")
                 IN  IF c \in {" ", "\t"} THEN Tokenize(Tail(s))
                     ELSE IF n > 0
                     THEN <<SubSeq(s, 1, n)>> \o Tokenize(SubSeq(s, n + 1, Len(s)))
                     ELSE IF StartsWith(s, "**") \/ StartsWith(s, "//")
                     THEN <<SubSeq(s, 1, 2)>> \o Tokenize(SubSeq(s, 3, Len(s)))
                     ELSE IF c \in {"+", "-", "*", "/", "(", ")"}
                     THEN <<c>> \o Tokenize(Tail(s))
                     ELSE IF c \in {"=", "?", "$", "!"} THEN <<"?">> \o Tokenize(Tail(s))
                     ELSE <<"~">> \o Tokenize(Tail(s))
        IsNumber(tok) == Char(tok, 1) \in DecimalChars
        IsName(tok) == IsLetter(Char(tok, 1))
        \* parentheses open before token k
        DepthAt(ts, k) ==
            Cardinality({i \in 1..(k - 1) : ts[i] = "("})
                - Cardinality({i \in 1..(k - 1) : ts[i] = ")"})
        \* the last binary operator of ops outside parentheses, 0 if none
        LastBinary(ts, ops) ==
            LET at == {k \in 2..Len(ts) :
                           /\ ts[k] \in ops
                           /\ DepthAt(ts, k) = 0
                           /\ (ts[k - 1] = ")" \/ IsNumber(ts[k - 1]) \/ IsName(ts[k - 1]))}
            IN  IF at = {} THEN 0 ELSE CHOOSE k \in at : \A j \in at : j <= k
        \* the first ** outside parentheses, 0 if none
        FirstPower(ts) ==
            LET at == {k \in 1..Len(ts) : ts[k] = "**" /\ DepthAt(ts, k) = 0}
            IN  IF at = {} THEN 0 ELSE CHOOSE k \in at : \A j \in at : k <= j
        RECURSIVE IntPower(_, _)
        IntPower(b, e) == IF e = 0 THEN 1 ELSE b * IntPower(b, e - 1)
        \* n/d with d > 0
        Fraction(n, d, f) == IF d < 0 THEN Value(-n, -d, f) ELSE Value(n, d, f)
        Apply(op, a, b) ==
            LET f == a.f \/ b.f
            IN  CASE op = "+" -> Fraction(a.n * b.d + b.n * a.d, a.d * b.d, f)
                  [] op = "-" -> Fraction(a.n * b.d - b.n * a.d, a.d * b.d, f)
                  [] op = "*" -> Fraction(a.n * b.n, a.d * b.d, f)
                  [] op = "/" ->
                        IF b.n = 0
                        THEN Error("ZeroDivisionError",
                                   IF f THEN "float division by zero"
                                   ELSE "division by zero")
                        ELSE Fraction(a.n * b.d, a.d * b.n, TRUE)
                  [] op = "//" ->
                        IF b.n = 0
                        THEN Error("ZeroDivisionError",
                                   IF f THEN "float floor division by zero"
                                   ELSE "integer division or modulo by zero")
                        ELSE LET q == Fraction(a.n * b.d, a.d * b.n, f)
                             IN  Value(q.n \div q.d, 1, f)
                  [] op = "**" ->
                        IF b.n % b.d # 0 THEN Unmodelled
                        ELSE LET e == b.n \div b.d
                             IN  IF e >= 0
                                 THEN Fraction(IntPower(a.n, e), IntPower(a.d, e), f)
                                 ELSE IF a.n = 0
                                 THEN Error("ZeroDivisionError",
                                            "0.0 cannot be raised to a negative power")
                                 ELSE Fraction(IntPower(a.d, -e), IntPower(a.n, -e), TRUE)
        \* the operands are evaluated left to right; a syntax error anywhere
        \* in the text is raised before anything is evaluated
        Binary(op, a, b) ==
            IF a.err \in {"SyntaxError", "Unmodelled"} THEN a
            ELSE IF b.err \in {"SyntaxError", "Unmodelled"} THEN b
            ELSE IF a.err # "" THEN a
            ELSE IF b.err # "" THEN b
            ELSE Apply(op, a, b)
        \* the grammar, one level per rule: an expression is terms joined by
        \* + and -, a term factors joined by * / //, a factor a signed power,
        \* a primary a literal, a name, a call or a parenthesised expression
        RECURSIVE Parse(_, _)
        Parse(ts, rule) ==
            LET k == CASE rule = "expression" -> LastBinary(ts, {"+", "-"})
                       [] rule = "term" -> LastBinary(ts, {"*", "/", "//"})
                       [] rule = "factor" -> FirstPower(ts)
                       [] OTHER -> 0
                next == CASE rule = "expression" -> "term"
                          [] rule = "term" -> "factor"
                          [] OTHER -> "primary"
            IN  IF ts = <<>> THEN InvalidSyntax
                ELSE IF rule \in {"expression", "term"}
                THEN IF k = 0 THEN Parse(ts, next)
                     ELSE Binary(ts[k], Parse(SubSeq(ts, 1, k - 1), rule),
                                 Parse(SubSeq(ts, k + 1, Len(ts)), next))
                ELSE IF rule = "factor"
                THEN IF ts[1] = "+" THEN Parse(Tail(ts), "factor")
                     ELSE IF ts[1] = "-" \/ k # 0
                     THEN Binary(IF ts[1] = "-" THEN "-" ELSE "**",
                                 IF ts[1] = "-" THEN Value(0, 1, FALSE)
                                 ELSE Parse(SubSeq(ts, 1, k - 1), "primary"),
                                 IF ts[1] = "-" THEN Parse(Tail(ts), "factor")
                                 ELSE Parse(SubSeq(ts, k + 1, Len(ts)), "factor"))
                     ELSE Parse(ts, "primary")
                ELSE IF Len(ts) = 1 /\ IsNumber(ts[1])
                THEN IF Len(ts[1]) > 1 /\ Char(ts[1], 1) = "0" /\ IntValue(ts[1]) # 0
                     THEN Error("SyntaxError",
                                "leading zeros in decimal integer literals are not "
                                    \o "permitted; use an 0o prefix for octal integers "
                                    \o "(<string>, line 1)")
                     ELSE Value(IntValue(ts[1]), 1, FALSE)
                ELSE IF Len(ts) = 1 /\ IsName(ts[1])
                THEN IF ts[1] \in BoundNames THEN Unmodelled
                     ELSE Error("NameError", "name '" \o ts[1] \o "' is not defined")
                ELSE IF ts = <<"exit", "(", ")">> \/ ts = <<"quit", "(", ")">>
                THEN Error("SystemExit", "None")
                ELSE IF /\ Len(ts) >= 3
                        /\ ts[1] = "("
                        /\ ts[Len(ts)] = ")"
                        /\ \A i \in 2..Len(ts) : DepthAt(ts, i) >= 1
                THEN Parse(SubSeq(ts, 2, Len(ts) - 1), "expression")
                ELSE IF \E i \in 1..Len(ts) : ts[i] \in {"(", ")"} THEN Unmodelled
                ELSE InvalidSyntax
        tokens == Tokenize(source)
    IN  IF tokens = <<>> THEN Error("SyntaxError", "invalid syntax (<string>, line 0)")
        ELSE IF \E k \in 1..Len(tokens) : tokens[k] = "~" THEN Unmodelled
        ELSE IF \E k \in 1..Len(tokens) : tokens[k] = "?" THEN InvalidSyntax
        ELSE IF \E k \in 1..(Len(tokens) + 1) : DepthAt(tokens, k) < 0
        THEN Error("SyntaxError", "unmatched ')' (<string>, line 1)")
        ELSE IF DepthAt(tokens, Len(tokens) + 1) > 0
        THEN Error("SyntaxError", "'(' was never closed (<string>, line 1)")
        ELSE Parse(tokens, "expression")

FloatDigits == 16

\* str(value): repr of a float prints the shortest decimal that reads back
\* as the same float, which is the exact decimal when that has few digits
Format(v) ==
    LET a == IF v.n < 0 THEN -v.n ELSE v.n
        \* the digits of r/d after the decimal point, at most k of them
        RECURSIVE FractionDigits(_, _, _)
        FractionDigits(r, d, k) ==
            IF r = 0 \/ k = 0 THEN ""
            ELSE Char("0123456789", ((10 * r) \div d) + 1)
                     \o FractionDigits((10 * r) % d, d, k - 1)
        digits == FractionDigits(a % v.d, v.d, FloatDigits)
    IN  IF ~v.f THEN IntToStr(v.n)
        ELSE (IF v.n < 0 THEN "-" ELSE "") \o IntToStr(a \div v.d) \o "."
                 \o (IF digits = "" THEN "0" ELSE digits)

\* raised names an exception that `except Exception` does not catch
calculator_tool(expression) ==
    LET Returned(result) ==
            IF result.err = ""
            THEN [raised |-> "",
                  text |-> "Calculator result: " \o expression \o " = " \o Format(result)]
            ELSE IF result.err = "SystemExit" THEN [raised |-> "SystemExit", text |-> ""]
            ELSE [raised |-> "", text |-> "Calculator error: " \o result.msg]
    IN  Returned(Eval(Replace(expression, "^", "**")))

\* random.randint(a, b) returns some integer of a..b: the ends and the middle
RandInt(a, b) == IF a > b THEN {a} ELSE {a, (a + b) \div 2, b}

\* int(v) of a Python value v, an int, a str or None: the number, or the
\* message of the ValueError or TypeError raised
int(v) ==
    LET text == Strip(v.str)
        signed == text # "" /\ Char(text, 1) \in {"+", "-"}
        digits == IF signed THEN Tail(text) ELSE text
        n == IntValue(digits)
    IN  CASE v.type = "int" -> [raised |-> FALSE, value |-> v.int, msg |-> ""]
          [] v.type = "str" ->
                 IF digits # "" /\ \A i \in 1..Len(digits) : Char(digits, i) \in DecimalChars
                 THEN [raised |-> FALSE, msg |-> "",
                       value |-> IF signed /\ Char(text, 1) = "-" THEN -n ELSE n]
                 ELSE [raised |-> TRUE, value |-> 0,
                       msg |-> "invalid literal for int() with base 10: '" \o v.str \o "'"]
          [] OTHER ->
                 [raised |-> TRUE, value |-> 0,
                  msg |-> "int() argument must be a string, a bytes-like object or a "
                              \o "real number, not 'NoneType'"]

\* mutant: the draw made without the test of the range
random_number_tool_unordered(min_val, max_val, number) ==
    "Random number between " \o IntToStr(int(min_val).value) \o " and "
        \o IntToStr(int(max_val).value) \o ": " \o IntToStr(number)

\* number is what random.randint returns when the range is not empty
random_number_tool(min_val, max_val, number) ==
    LET Converted(a, b) ==
            IF a.raised THEN "Random number error: " \o a.msg
            ELSE IF b.raised THEN "Random number error: " \o b.msg
            ELSE IF a.value > b.value
            THEN "Random number error: empty range for randrange() (" \o IntToStr(a.value)
                     \o ", " \o IntToStr(b.value + 1) \o ", "
                     \o IntToStr(b.value + 1 - a.value) \o ")"
            ELSE "Random number between " \o IntToStr(a.value) \o " and "
                     \o IntToStr(b.value) \o ": " \o IntToStr(number)
    IN  Converted(int(min_val), int(max_val))

datetime_tool(now) == "Current date and time: " \o now

word_count_tool(text) ==
    "Text analysis - Words: " \o IntToStr(Len(SplitWhitespace(text)))
        \o ", Characters: " \o IntToStr(Len(text))

\* mutant: the text returned as it came
reverse_text_tool_unchanged(text) == "Reversed text: " \o text

reverse_text_tool(text) == "Reversed text: " \o Reverse(text)

-----------------------------------------------------------------------------
(* chat_with_tools.py: the other two stages *)

\* the range execute_tool passes to random_number_tool
random_range(user_input) ==
    LET numbers == Numbers(user_input)
    IN  IF Contains(Lower(user_input), "between") /\ ~numbers.raised
           /\ Len(numbers.values) >= 2
        THEN <<numbers.values[1], numbers.values[2]>>
        ELSE <<1, 100>>

\* extracted is the text-generation reply to the extraction prompt, number
\* the draw of random.randint, now the clock
execute_tool(st, extracted, number, now) ==
    LET tool_name == st.selected_tool
        range == random_range(st.user_input)
        Returned(text) == [raised |-> "", text |-> text]
        \* state["tool_results"][tool_name] = result, unless the tool raised
        Called(result) ==
            IF result.raised # "" THEN [raised |-> result.raised, state |-> st]
            ELSE [raised |-> "",
                  state |-> [st EXCEPT !.tool_results = DictSet(@, tool_name, result.text)]]
    IN  IF tool_name \notin AVAILABLE_TOOLS
        THEN [raised |-> "",
              state |-> [st EXCEPT !.tool_results =
                             DictSet(@, "error", "Tool " \o tool_name \o " not found")]]
        ELSE Called(CASE tool_name = "calculator" -> calculator_tool(Strip(extracted))
                      [] tool_name = "random_number" ->
                             Returned(random_number_tool(
                                          [type |-> "int", int |-> range[1], str |-> ""],
                                          [type |-> "int", int |-> range[2], str |-> ""],
                                          number))
                      [] tool_name = "datetime" -> Returned(datetime_tool(now))
                      [] tool_name = "word_count" -> Returned(word_count_tool(Strip(extracted)))
                      [] tool_name = "reverse_text" ->
                             Returned(reverse_text_tool(Strip(extracted)))
                      [] OTHER -> Returned("Tool execution failed"))

\* mutant: the user message left out of the history
generate_response_reply_only(st, response) ==
    [st EXCEPT !.response = response,
               !.messages = @ \o <<[role |-> "assistant", content |-> response]>>,
               !.tool_results = <<>>]

generate_response(st, response) ==
    [st EXCEPT !.response = response,
               !.messages = @ \o <<[role |-> "user", content |-> st.user_input],
                                   [role |-> "assistant", content |-> response]>>,
               !.tool_results = <<>>]

\* mutant: the tool stage never chosen
route_after_analysis_never(st) == "generate_response"

route_after_analysis(st) ==
    IF st.needs_tool THEN "execute_tool" ELSE "generate_response"

-----------------------------------------------------------------------------
(* creative_writing.py *)

\* the six stage functions: analyze_creative_request reads the four labelled
\* lines of the analysis; generate_draft, refine_content, enhance_creativity,
\* final_polish and generate_feedback each store the generated text
CreativeStage(node, st, text) ==
    LET RECURSIVE CreativeFields(_, _)
        CreativeFields(lines, acc) ==
            IF lines = <<>> THEN acc
            ELSE LET ln == Head(lines)
                     value == Lower(Strip(Split(ln, ":")[2]))
                 IN  CreativeFields(Tail(lines),
                         IF StartsWith(ln, "Content Type:")
                         THEN [acc EXCEPT !.content_type = value]
                         ELSE IF StartsWith(ln, "Target Length:")
                         THEN [acc EXCEPT !.target_length = value]
                         ELSE IF StartsWith(ln, "Target Audience:")
                         THEN [acc EXCEPT !.target_audience = value]
                         ELSE IF StartsWith(ln, "Tone:") THEN [acc EXCEPT !.tone = value]
                         ELSE acc)
        parsed == CreativeFields(Split(text, "\n"),
                      [content_type |-> "story", target_length |-> "medium",
                       target_audience |-> "general", tone |-> "neutral"])
    IN  CASE node = "analyze" ->
                 [st EXCEPT !.content_type = parsed.content_type,
                            !.target_length = parsed.target_length,
                            !.target_audience = parsed.target_audience,
                            !.tone = parsed.tone]
          [] node = "draft" -> [st EXCEPT !.draft_content = text]
          [] node = "refine" -> [st EXCEPT !.refined_content = text]
          [] node = "enhance" -> [st EXCEPT !.enhanced_content = text]
          [] node = "polish" -> [st EXCEPT !.final_content = text]
          [] node = "feedback" ->
                 [st EXCEPT !.feedback =
                      <<[key |-> "detailed", value |-> text],
                        [key |-> "summary",
                         value |-> "Creative work completed with comprehensive "
                                       \o "refinement process"]>>]

\* the state fields each stage function reads
CreativeReads ==
    [analyze |-> {"prompt"},
     draft |-> {"prompt", "content_type", "target_length", "target_audience", "tone"},
     refine |-> {"draft_content", "content_type", "tone"},
     enhance |-> {"refined_content", "content_type", "target_audience"},
     polish |-> {"enhanced_content", "content_type"},
     feedback |-> {"final_content", "content_type", "prompt"}]

\* the state fields each stage function assigns
CreativeWrites ==
    [analyze |-> {"content_type", "target_length", "target_audience", "tone"},
     draft |-> {"draft_content"},
     refine |-> {"refined_content"},
     enhance |-> {"enhanced_content"},
     polish |-> {"final_content"},
     feedback |-> {"feedback"}]

CreativeInitialState ==
    [prompt |-> "input", content_type |-> "", target_length |-> "", target_audience |-> "",
     tone |-> "", draft_content |-> "", refined_content |-> "", enhanced_content |-> "",
     final_content |-> "", feedback |-> <<>>]

-----------------------------------------------------------------------------
(* src/langchain: each script calls one chain per request *)

ChainExamples == {"simple_chat", "streaming_chat", "conversation_memory", "document_qa"}

\* conversation.predict saves the exchange to the memory once the text is back
invoke_chain(ex, st, response) ==
    IF ex = "conversation_memory"
    THEN [st EXCEPT !.response = response,
                    !.history = @ \o <<[role |-> "Human", content |-> st.question],
                                       [role |-> "AI", content |-> response]>>]
    ELSE [st EXCEPT !.response = response]

ChainInitialState == [question |-> "input", history |-> <<>>, response |-> ""]

\* mutant: a fragment that repeats the end of the response is dropped
stream_chunk_deduplicated(st, chunk, shown) ==
    IF Len(chunk) <= Len(st.response)
           /\ SubSeq(st.response, Len(st.response) - Len(chunk) + 1, Len(st.response)) = chunk
    THEN [state |-> st, printed |-> shown]
    ELSE [state |-> [st EXCEPT !.response = @ \o chunk], printed |-> shown \o chunk]

\* streaming_chat main, the body of the for loop: the fragment is added to
\* the response and printed without a line end; shown is what the terminal
\* holds
stream_chunk(st, chunk, shown) ==
    [state |-> [st EXCEPT !.response = @ \o chunk], printed |-> shown \o chunk]

\* the fragments chain.stream yields
Chunks == {"Hel", "lo", " "}

\* a stream yields at most MaxChunks fragments
MaxChunks == 3

-----------------------------------------------------------------------------
(* main(): what the console loop does with a line *)

MaxLines == 2

\* mutant: the quit words compared without lower()
IsQuit_exact(user_input) == user_input \in {"quit", "exit", "q"}

\* user_input.lower() in ['quit', 'exit', 'q']
IsQuit(user_input) == Lower(user_input) \in {"quit", "exit", "q"}

\* the tests main makes on a line, in the order of the code: "break" leaves
\* the loop, "tools", "memory" and "continue" go back to input(), "invoke"
\* enters the try block.  Six scripts test user_input.strip() for emptiness.
Dispatch(ex, user_input) ==
    IF IsQuit(user_input) THEN "break"
    ELSE IF ex = "chat" /\ Lower(user_input) = "tools" THEN "tools"
    ELSE IF ex = "conversation_memory" /\ Lower(user_input) = "memory" THEN "memory"
    ELSE IF ex = "review" /\ Lower(user_input) = "example" THEN "invoke"
    ELSE IF /\ ex \in {"reasoning", "research", "review", "conditional", "chat", "creative"}
            /\ Strip(user_input) = ""
    THEN "continue"
    ELSE "invoke"

\* what main holds before the first line is read
ConversationStart(ex) ==
    IF ex = "chat" THEN [ChatInitialState EXCEPT !.user_input = ""] ELSE [history |-> <<>>]

\* mutant: the tool fields of the last turn left in place
update_conversation_state_input_only(kept, user_input) ==
    [kept EXCEPT !.user_input = user_input]

\* chat_with_tools main: the same conversation_state is updated for each turn
update_conversation_state(kept, user_input) ==
    [kept EXCEPT !.user_input = user_input, !.needs_tool = FALSE, !.selected_tool = "",
                 !.tool_results = <<>>]

\* the state main passes to invoke for a line; kept is what main holds from
\* earlier turns
initial_state(ex, user_input, kept) ==
    CASE ex = "reasoning" -> [ReasoningInitialState EXCEPT !.original_problem = user_input]
      [] ex = "research" -> [ResearchInitialState EXCEPT !.research_topic = user_input]
      [] ex = "review" ->
            [ReviewInitialState EXCEPT
                 !.code = IF Lower(user_input) = "example" THEN "example_code" ELSE user_input]
      [] ex = "conditional" -> [ConditionalInitialState EXCEPT !.input_text = user_input]
      [] ex = "agent" -> [AgentInitialState EXCEPT !.messages = <<user_input>>]
      [] ex = "chat" -> update_conversation_state(kept, user_input)
      [] ex = "creative" -> [CreativeInitialState EXCEPT !.prompt = user_input]
      [] ex = "conversation_memory" ->
            [ChainInitialState EXCEPT !.question = user_input, !.history = kept.history]
      [] OTHER -> [ChainInitialState EXCEPT !.question = user_input]

\* the two lines main prints in its except branch
ErrorReport == "Error; Make sure Ollama is running and llama3.2:latest is available."

\* the lines typed at the prompt
InputLines(ex) ==
    {"quit", "Exit", "Q", "", " \t", "hello"} \cup
        (CASE ex = "chat" -> {"Tools", "a number between 5 and 2"}
           [] ex = "conversation_memory" -> {"Memory"}
           [] ex = "review" -> {"Example"}
           [] OTHER -> {})

-----------------------------------------------------------------------------
(* The compiled graphs: the nodes scheduled after a node has run.  A node    *)
(* with several outgoing edges schedules every successor; a conditional      *)
(* edge looks its routing result up in the registered map.                   *)

Branch(path_map, key) ==
    IF key \in DOMAIN path_map THEN {path_map[key]} ELSE {"KeyError"}

create_reasoning_graph(node, st) ==
    CASE node = "analyze" -> {"execute_step"}
      [] node = "execute_step" -> {"advance"}
      [] node = "advance" ->
            Branch([execute_step |-> "execute_step", synthesize |-> "synthesize"],
                   should_continue_reasoning(st))
      [] node = "synthesize" -> {}

create_research_workflow(node, st) ==
    CASE node = "generate_questions" -> {"research_question"}
      [] node = "research_question" -> {"advance"}
      [] node = "advance" ->
            Branch([research_more |-> "research_question", synthesize |-> "synthesize"],
                   should_continue_research(st))
      [] node = "synthesize" -> {"recommend"}
      [] node = "recommend" -> {}

create_code_review_workflow(node, st) ==
    CASE node = "detect_language" -> {"review_syntax"}
      [] node = "review_syntax" -> {"advance"}
      [] node = "advance" ->
            Branch([continue_review |-> "review_style", summarize |-> "summarize"],
                   should_continue_review(st))
      [] node = "review_style" -> {"advance", "review_logic"}
      [] node = "review_logic" -> {"advance", "review_security"}
      [] node = "review_security" -> {"advance", "review_optimization"}
      [] node = "review_optimization" -> {"advance", "summarize"}
      [] node = "summarize" -> {}

create_conditional_workflow(node, st) ==
    CASE node = "analyze" ->
            Branch([h \in HandlerNames |-> h], route_by_content_type(st))
      [] node \in HandlerNames ->
            Branch([apply_sentiment |-> "apply_sentiment"], should_apply_sentiment_filter(st))
      [] node = "apply_sentiment" -> {}

create_agent_graph(node, st) ==
    CASE node = "classify" ->
            Branch([h \in DOMAIN AgentHandlers |-> h], route_query(st))
      [] node \in DOMAIN AgentHandlers -> {}

create_chat_agent_workflow(node, st) ==
    CASE node = "analyze" ->
            Branch([execute_tool |-> "execute_tool", generate_response |-> "generate_response"],
                   route_after_analysis(st))
      [] node = "execute_tool" -> {"generate_response"}
      [] node = "generate_response" -> {}

\* mutant: the refine and enhance edges exchanged
create_creative_writing_workflow_enhance_first(node, st) ==
    CASE node = "analyze" -> {"draft"}
      [] node = "draft" -> {"enhance"}
      [] node = "enhance" -> {"refine"}
      [] node = "refine" -> {"polish"}
      [] node = "polish" -> {"feedback"}
      [] node = "feedback" -> {}

create_creative_writing_workflow(node, st) ==
    CASE node = "analyze" -> {"draft"}
      [] node = "draft" -> {"refine"}
      [] node = "refine" -> {"enhance"}
      [] node = "enhance" -> {"polish"}
      [] node = "polish" -> {"feedback"}
      [] node = "feedback" -> {}

Examples == {"reasoning", "research", "review", "conditional", "agent", "chat", "creative"}

EntryPoint(ex) ==
    CASE ex = "reasoning" -> "analyze"
      [] ex = "research" -> "generate_questions"
      [] ex = "review" -> "detect_language"
      [] ex = "conditional" -> "analyze"
      [] ex = "agent" -> "classify"
      [] ex = "chat" -> "analyze"
      [] ex = "creative" -> "analyze"
      [] ex \in ChainExamples -> "chain"

InitialState(ex) ==
    CASE ex = "reasoning" -> ReasoningInitialState
      [] ex = "research" -> ResearchInitialState
      [] ex = "review" -> ReviewInitialState
      [] ex = "conditional" -> ConditionalInitialState
      [] ex = "agent" -> AgentInitialState
      [] ex = "chat" -> ChatInitialState
      [] ex = "creative" -> CreativeInitialState
      [] ex \in ChainExamples -> ChainInitialState

Successors(ex, node, st) ==
    CASE ex = "reasoning" -> create_reasoning_graph(node, st)
      [] ex = "research" -> create_research_workflow(node, st)
      [] ex = "review" -> create_code_review_workflow(node, st)
      [] ex = "conditional" -> create_conditional_workflow(node, st)
      [] ex = "agent" -> create_agent_graph(node, st)
      [] ex = "chat" -> create_chat_agent_workflow(node, st)
      [] ex = "creative" -> create_creative_writing_workflow(node, st)
      [] ex \in ChainExamples -> {}

ReviewNodes ==
    {"review_syntax", "review_style", "review_logic", "review_security", "review_optimization"}

\* whether the node, run on st, makes a text-generation call
CallsLLM(ex, node, st) ==
    CASE node \in {"advance", "apply_sentiment"} -> FALSE
      [] node = "execute_step" -> st.current_step < Len(st.reasoning_steps)
      [] node = "research_question" -> st.current_question_index < Len(st.research_questions)
      [] node = "execute_tool" -> st.selected_tool \in {"calculator", "word_count", "reverse_text"}
      [] OTHER -> TRUE

IsStepNode(node) == node \in {"execute_step", "research_question"} \cup ReviewNodes

-----------------------------------------------------------------------------
(* One run of workflow.invoke(initial_state) *)

Init ==
    /\ example \in Examples
    /\ active = {EntryPoint(example)}
    /\ status = "running"
    /\ error = ""
    /\ state = InitialState(example)
    /\ trace = <<>>
    /\ step_calls = 0
    /\ console = "invoking"
    /\ input_line = "input"
    /\ requests = 1
    /\ printed = ""
    /\ conversation_state = ConversationStart(example)
    /\ arguments = <<>>
    /\ files = <<>>

Running(ex, node) == status = "running" /\ example = ex /\ active = {node}

\* the node returned st2: the state is updated and its successors scheduled
Commit(node, st2) ==
    LET next == Successors(example, node, st2)
    IN  /\ state' = st2
        /\ trace' = Append(trace, node)
        /\ IF "KeyError" \in next
           THEN active' = {} /\ status' = "error" /\ error' = "KeyError"
           ELSE /\ active' = next
                /\ status' = IF next = {} THEN "done" ELSE "running"
                /\ error' = ""
        /\ UNCHANGED <<example, loop_vars, call_vars>>

\* the node raised: invoke raises, the state of the run is lost
Raise(nodes, kind) ==
    /\ status' = "error"
    /\ error' = kind
    /\ active' = {}
    /\ trace' = trace \o nodes
    /\ UNCHANGED <<example, state, loop_vars, call_vars>>

AnalyzeProblem ==
    /\ Running("reasoning", "analyze")
    /\ \E analysis \in PlanTexts : Commit("analyze", analyze_problem(state, analysis))
    /\ UNCHANGED step_calls

ExecuteReasoningStep ==
    /\ Running("reasoning", "execute_step")
    /\ IF CallsLLM(example, "execute_step", state)
       THEN /\ \E result \in StepResults :
                   Commit("execute_step", execute_reasoning_step(state, result))
            /\ step_calls' = step_calls + 1
       ELSE /\ Commit("execute_step", execute_reasoning_step(state, ""))
            /\ UNCHANGED step_calls

AdvanceStep ==
    /\ Running("reasoning", "advance")
    /\ Commit("advance", advance_step(state))
    /\ UNCHANGED step_calls

SynthesizeAnswer ==
    /\ Running("reasoning", "synthesize")
    /\ \E synthesis \in SynthesisTexts : Commit("synthesize", synthesize_answer(state, synthesis))
    /\ UNCHANGED step_calls

GenerateResearchQuestions ==
    /\ Running("research", "generate_questions")
    /\ \E response \in PlanTexts :
           Commit("generate_questions", generate_research_questions(state, response))
    /\ UNCHANGED step_calls

ResearchQuestion ==
    /\ Running("research", "research_question")
    /\ IF CallsLLM(example, "research_question", state)
       THEN /\ \E finding \in StepResults :
                   Commit("research_question", research_question(state, finding))
            /\ step_calls' = step_calls + 1
       ELSE /\ Commit("research_question", research_question(state, ""))
            /\ UNCHANGED step_calls

AdvanceResearch ==
    /\ Running("research", "advance")
    /\ Commit("advance", advance_research(state))
    /\ UNCHANGED step_calls

SynthesizeFindings ==
    /\ Running("research", "synthesize")
    /\ \E summary \in {"summary"} : Commit("synthesize", synthesize_findings(state, summary))
    /\ UNCHANGED step_calls

GenerateRecommendations ==
    /\ Running("research", "recommend")
    /\ \E recommendations \in RecommendationTexts :
           IF ParseConfidence(Split(recommendations, "\n"), 7).raised
           THEN Raise(<<"recommend">>, "ValueError")
           ELSE Commit("recommend", generate_recommendations(state, recommendations))
    /\ UNCHANGED step_calls

DetectLanguage ==
    /\ Running("review", "detect_language")
    /\ \E response \in LanguageTexts : Commit("detect_language", detect_language(state, response))
    /\ UNCHANGED step_calls

ReviewRaises(review) == ParseScore(Split(review, "\n"), 0).raised

Review ==
    /\ \E node \in ReviewNodes :
          /\ Running("review", node)
          /\ \E review \in ReviewTexts :
                 IF ReviewRaises(review)
                 THEN Raise(<<node>>, "ValueError")
                 ELSE Commit(node, ReviewStage(node, state, review))
    /\ step_calls' = step_calls + 1

AdvanceReviewStage ==
    /\ Running("review", "advance")
    /\ Commit("advance", advance_review_stage(state))
    /\ UNCHANGED step_calls

\* Two nodes scheduled for the same step both run and both return the whole
\* state; the graph accepts one value per state key and step, so invoke raises.
ConcurrentUpdate ==
    /\ status = "running"
    /\ Cardinality(active) > 1
    /\ \E order \in [1..Cardinality(active) -> active] :
          /\ \A i, j \in DOMAIN order : i # j => order[i] # order[j]
          /\ \E review \in ReviewTexts :
                 Raise(order, IF active \cap ReviewNodes # {} /\ ReviewRaises(review)
                              THEN "ValueError" ELSE "InvalidUpdateError")
    /\ step_calls' = step_calls + Cardinality({n \in active : IsStepNode(n) /\ CallsLLM(example, n, state)})

AnalyzeContent ==
    /\ Running("conditional", "analyze")
    /\ \E analysis \in AnalysisTexts : Commit("analyze", analyze_content(state, analysis))
    /\ UNCHANGED step_calls

HandleContent ==
    /\ \E handler \in HandlerNames :
          /\ Running("conditional", handler)
          /\ \E response \in HandlerResponses :
                 Commit(handler, handle_content(state, handler, response))
    /\ UNCHANGED step_calls

ApplySentimentFilter ==
    /\ Running("conditional", "apply_sentiment")
    /\ Commit("apply_sentiment", apply_sentiment_filter(state))
    /\ UNCHANGED step_calls

ClassifyQuery ==
    /\ Running("agent", "classify")
    /\ \E response \in ClassificationTexts : Commit("classify", classify_query(state, response))
    /\ UNCHANGED step_calls

HandleQuery ==
    /\ \E handler \in DOMAIN AgentHandlers :
          /\ Running("agent", handler)
          /\ \E response \in HandlerResponses :
                 Commit(handler, handle_query(state, handler, response))
    /\ UNCHANGED step_calls

AnalyzeUserInput ==
    /\ Running("chat", "analyze")
    /\ \E analysis \in ToolAnalysisTexts :
           Commit("analyze", analyze_user_input(state, analysis))
    /\ UNCHANGED step_calls

ExecuteTool ==
    /\ Running("chat", "execute_tool")
    /\ \E extracted \in ExtractionTexts, now \in Timestamps :
       \E number \in RandInt(random_range(state.user_input)[1],
                             random_range(state.user_input)[2]) :
       \E outcome \in {execute_tool(state, extracted, number, now)} :
           IF outcome.raised # ""
           THEN Raise(<<"execute_tool">>, outcome.raised)
           ELSE Commit("execute_tool", outcome.state)
    /\ UNCHANGED step_calls

GenerateResponse ==
    /\ Running("chat", "generate_response")
    /\ \E response \in HandlerResponses :
           Commit("generate_response", generate_response(state, response))
    /\ UNCHANGED step_calls

CreativeWrite ==
    /\ \E node \in {"analyze", "draft", "refine", "enhance", "polish", "feedback"} :
          /\ Running("creative", node)
          /\ \E text \in IF node = "analyze" THEN CreativeAnalysisTexts ELSE StepResults :
                 Commit(node, CreativeStage(node, state, text))
    /\ UNCHANGED step_calls

\* llm.invoke raises (service unreachable, model missing)
LLMFailure ==
    /\ status = "running"
    /\ \E node \in active :
          /\ CallsLLM(example, node, state)
          /\ Raise(<<node>>, "llm")
          /\ step_calls' = step_calls + (IF IsStepNode(node) THEN 1 ELSE 0)

Next ==
    \/ AnalyzeProblem
    \/ ExecuteReasoningStep
    \/ AdvanceStep
    \/ SynthesizeAnswer
    \/ GenerateResearchQuestions
    \/ ResearchQuestion
    \/ AdvanceResearch
    \/ SynthesizeFindings
    \/ GenerateRecommendations
    \/ DetectLanguage
    \/ Review
    \/ AdvanceReviewStage
    \/ ConcurrentUpdate
    \/ AnalyzeContent
    \/ HandleContent
    \/ ApplySentimentFilter
    \/ ClassifyQuery
    \/ HandleQuery
    \/ AnalyzeUserInput
    \/ ExecuteTool
    \/ GenerateResponse
    \/ CreativeWrite
    \/ LLMFailure

Spec == Init /\ [][Next]_vars

-----------------------------------------------------------------------------
(* The console loop of main(): lines are read until a quit word; a line     *)
(* that is neither a command nor ignored is one invocation, run by the      *)
(* actions of Next.                                                         *)

SessionInit ==
    /\ example \in Examples \cup ChainExamples
    /\ console = "prompt"
    /\ input_line = ""
    /\ requests = 0
    /\ printed = ""
    /\ conversation_state = ConversationStart(example)
    /\ arguments = <<>>
    /\ files = <<>>
    /\ active = {}
    /\ status = "idle"
    /\ error = ""
    /\ state = [none |-> TRUE]
    /\ trace = <<>>
    /\ step_calls = 0

\* input() returns a line and main acts on it, up to the call of invoke
ReadInput ==
    /\ console = "prompt"
    /\ requests < MaxLines
    /\ \E user_input \in InputLines(example) :
          LET todo == Dispatch(example, user_input)
          IN  /\ input_line' = user_input
              /\ requests' = requests + 1
              /\ IF todo = "invoke"
                 THEN /\ console' = "invoking"
                      /\ printed' = IF example = "streaming_chat" THEN "Assistant: " ELSE ""
                      /\ state' = initial_state(example, user_input, conversation_state)
                      /\ conversation_state' =
                             IF example = "chat" THEN state' ELSE conversation_state
                      /\ active' = {EntryPoint(example)}
                      /\ status' = "running"
                      /\ error' = ""
                      /\ trace' = <<>>
                      /\ step_calls' = 0
                 ELSE /\ console' = IF todo = "break" THEN "exited" ELSE "prompt"
                      /\ printed' = CASE todo = "break" -> "Goodbye!"
                                      [] todo = "continue" -> ""
                                      [] OTHER -> todo
                      /\ UNCHANGED <<active, status, error, state, trace, step_calls,
                                     conversation_state>>
    /\ UNCHANGED <<example, call_vars>>

\* the chain of a LangChain script answers
InvokeChain ==
    /\ \E ex \in ChainExamples \ {"streaming_chat"} :
          /\ Running(ex, "chain")
          /\ \E response \in HandlerResponses :
                 Commit("chain", invoke_chain(ex, state, response))
    /\ UNCHANGED step_calls

\* chain.stream yields a fragment; the trace of the request holds the
\* fragments in the order they arrived
StreamChunk ==
    /\ Running("streaming_chat", "chain")
    /\ Len(trace) < MaxChunks
    /\ \E chunk \in Chunks :
       \E outcome \in {stream_chunk(state, chunk, printed)} :
           /\ state' = outcome.state
           /\ printed' = outcome.printed
           /\ trace' = Append(trace, chunk)
    /\ UNCHANGED <<example, active, status, error, step_calls, console, input_line, requests,
                   conversation_state, call_vars>>

\* the stream is exhausted: the for loop ends and the separator is printed
EndStream ==
    /\ Running("streaming_chat", "chain")
    /\ active' = {}
    /\ status' = "done"
    /\ printed' = printed \o "\n" \o "--------------------------------------------------" \o "\n"
    /\ UNCHANGED <<example, error, state, trace, step_calls, console, input_line, requests,
                   conversation_state, call_vars>>

\* invoke returned or raised: main prints the result, or `except Exception`
\* prints the error and the hint; an exception that is not an Exception
\* leaves main
Finish ==
    /\ console = "invoking"
    /\ status \in {"done", "error"}
    /\ IF status = "done"
       THEN /\ console' = "prompt"
            /\ printed' = "result"
            /\ conversation_state' =
                   CASE example = "chat" -> state
                     [] example = "conversation_memory" -> [history |-> state.history]
                     [] OTHER -> conversation_state
       ELSE IF error = "SystemExit"
       THEN /\ console' = "exited"
            /\ UNCHANGED <<printed, conversation_state>>
       ELSE /\ console' = "prompt"
            /\ printed' = ErrorReport
            /\ UNCHANGED conversation_state
    /\ UNCHANGED <<example, active, status, error, state, trace, step_calls, input_line,
                   requests, call_vars>>

SessionNext ==
    \/ ReadInput
    \/ InvokeChain
    \/ StreamChunk
    \/ EndStream
    \/ Finish
    \/ Next

SessionSpec == SessionInit /\ [][SessionNext]_vars

-----------------------------------------------------------------------------
(* The parsing stages called one at a time on a text: each stage function   *)
(* is applied once to a state of its example and returns or raises.         *)

\* each parsing stage starts from a state its example has before the stage;
\* summarize starts from the states the review stages leave, the first k of
\* them having recorded a review
StageInit ==
    /\ \E stage \in {<<"conditional", "analyze">>, <<"chat", "analyze">>,
                      <<"reasoning", "synthesize">>, <<"research", "recommend">>,
                      <<"review", "summarize">>}
                         \cup {<<"review", node>> : node \in ReviewNodes} :
          /\ example = stage[1]
          /\ active = {stage[2]}
          /\ state \in
                 LET detected == detect_language(ReviewInitialState, "python")
                     RECURSIVE Reviewed(_)
                     Reviewed(k) ==
                         IF k = 0 THEN {detected}
                         ELSE {ReviewStage("review_" \o detected.review_stages[k], st, review) :
                                   st \in Reviewed(k - 1),
                                   review \in {"SCORE: 15", "SCORE: 0", ""}}
                 IN  CASE stage[1] = "conditional" -> {ConditionalInitialState}
                       [] stage[1] = "chat" -> {ChatInitialState}
                       [] stage[1] = "reasoning" -> {analyze_problem(ReasoningInitialState, "")}
                       [] stage[1] = "research" ->
                             {synthesize_findings(
                                  generate_research_questions(ResearchInitialState, ""),
                                  "summary")}
                       [] stage[2] = "summarize" ->
                             UNION {Reviewed(k) : k \in 1..Len(detected.review_stages)}
                       [] OTHER -> {detected}
    /\ status = "running"
    /\ error = ""
    /\ trace = <<>>
    /\ step_calls = 0
    /\ console = "invoking"
    /\ input_line = "input"
    /\ requests = 1
    /\ printed = ""
    /\ conversation_state = ConversationStart(example)
    /\ arguments = <<>>
    /\ files = <<>>

Return(node, st2) ==
    /\ state' = st2
    /\ trace' = Append(trace, node)
    /\ active' = {}
    /\ status' = "done"
    /\ error' = ""
    /\ UNCHANGED <<example, step_calls, loop_vars, call_vars>>

CallAnalyzeContent ==
    /\ Running("conditional", "analyze")
    /\ \E analysis \in AnalysisTexts : Return("analyze", analyze_content(state, analysis))

CallAnalyzeUserInput ==
    /\ Running("chat", "analyze")
    /\ \E analysis \in ToolAnalysisTexts : Return("analyze", analyze_user_input(state, analysis))

CallSynthesizeAnswer ==
    /\ Running("reasoning", "synthesize")
    /\ \E synthesis \in SynthesisTexts : Return("synthesize", synthesize_answer(state, synthesis))

CallGenerateRecommendations ==
    /\ Running("research", "recommend")
    /\ \E recommendations \in RecommendationTexts :
           IF ParseConfidence(Split(recommendations, "\n"), 7).raised
           THEN Raise(<<"recommend">>, "ValueError") /\ UNCHANGED step_calls
           ELSE Return("recommend", generate_recommendations(state, recommendations))

CallReview ==
    \E node \in ReviewNodes :
        /\ Running("review", node)
        /\ \E review \in ReviewTexts :
               IF ReviewRaises(review)
               THEN Raise(<<node>>, "ValueError") /\ UNCHANGED step_calls
               ELSE Return(node, ReviewStage(node, state, review))

CallGenerateFinalSummary ==
    /\ Running("review", "summarize")
    /\ \E summary \in StepResults :
       \E outcome \in {generate_final_summary(state, summary)} :
           IF outcome.raised # ""
           THEN Raise(<<"summarize">>, outcome.raised) /\ UNCHANGED step_calls
           ELSE Return("summarize", outcome.state)

StageNext ==
    \/ CallGenerateFinalSummary
    \/ CallAnalyzeContent
    \/ CallAnalyzeUserInput
    \/ CallSynthesizeAnswer
    \/ CallGenerateRecommendations
    \/ CallReview

StageSpec == StageInit /\ [][StageNext]_vars

-----------------------------------------------------------------------------
(* The tools called one at a time: each tool function is applied once to    *)
(* arguments drawn from small sets and returns its text or raises.          *)
(* load_document of document_qa.py is called the same way, on a file        *)
(* system drawn from small sets, and again on the files it left.            *)

\* arguments of calculator_tool
ExpressionTexts ==
    {"5+3", "2^3", "10*4-2", "15/3", "1/0", "7/2", "(1+2)*-3", "2^3^2", "1 + 2", "8",
     "five plus three", "five", "", "5+", "007", "exit()", "quit()", "2**10", "9//2",
     "-7//2", "1/3"}

\* arguments of word_count_tool and reverse_text_tool
ToolTexts ==
    {"", "a", "Hello", "hello world", " two  words ", "The quick brown fox jumps", "abc",
     "level"}

\* arguments of random_number_tool: ints, and values that int() converts
\* or rejects
RangeEnds ==
    {[type |-> "int", int |-> n, str |-> ""] : n \in {-3, 0, 1, 2, 5, 10, 100}}
        \cup {[type |-> "str", int |-> 0, str |-> t] : t \in {"7", " 5 ", "-3", "abc", "²", ""}}
        \cup {[type |-> "NoneType", int |-> 0, str |-> ""]}

\* the text create_sample_document writes
sample_content ==
    "\n"
        \o "    LangChain is a framework for developing applications powered by language models. \n"
        \o "    It enables developers to build context-aware and reasoning applications that can \n"
        \o "    connect language models to other sources of data and interact with their environment.\n"
        \o "\n"
        \o "    Key Features of LangChain:\n"
        \o "    1. LLMs and Prompts: Management and optimization of prompts and interface with LLMs\n"
        \o "    2. Chains: Sequences of calls to LLMs or other utilities\n"
        \o "    3. Data Augmented Generation: Chains that interact with external data sources\n"
        \o "    4. Agents: Chains that use LLMs to determine actions to take\n"
        \o "    5. Memory: Persist state between calls of a chain/agent\n"
        \o "\n"
        \o "    Ollama is a tool that allows you to run large language models locally on your machine.\n"
        \o "    It supports various models including Llama, Mistral, and others. Ollama makes it easy\n"
        \o "    to get up and running with LLMs without needing cloud services or API keys.\n"
        \o "\n"
        \o "    Benefits of using Ollama:\n"
        \o "    - Privacy: Your data stays on your machine\n"
        \o "    - Speed: No network latency for inference\n"
        \o "    - Cost: No per-token charges\n"
        \o "    - Offline: Works without internet connection\n"
        \o "    - Customization: Fine-tune models for specific use cases\n"
        \o "    "

\* mutant: the sample is returned without being written
load_document_unwritten(file_path, fs) ==
    IF file_path \in DOMAIN fs
    THEN [content |-> Replace(Replace(fs[file_path], "\r\n", "\n"), "\r", "\n"),
          files |-> fs, printed |-> ""]
    ELSE [content |-> sample_content, files |-> fs,
          printed |-> "File " \o file_path \o " not found. Creating a sample document...\n"]

\* load_document(file_path) on the file system fs, a function from the paths
\* that hold a file to what the file holds: the text returned, the file
\* system left and the line printed.  A file opened in text mode is read with
\* universal newlines; create_sample_document writes the sample (which has no
\* line ending to translate where os.linesep is "\n") and returns it.
load_document(file_path, fs) ==
    IF file_path \in DOMAIN fs
    THEN [content |-> Replace(Replace(fs[file_path], "\r\n", "\n"), "\r", "\n"),
          files |-> fs, printed |-> ""]
    ELSE [content |-> sample_content,
          files |-> [q \in DOMAIN fs \cup {file_path} |->
                        IF q = file_path THEN sample_content ELSE fs[q]],
          printed |-> "File " \o file_path \o " not found. Creating a sample document...\n"]

\* the script is run at most MaxLoads times on one file system
MaxLoads == 2

DocumentPaths == {"sample_document.txt", "notes.txt"}

\* what a file may hold before the script runs
FileContents == {"", "Ollama runs models locally.\n", "first\r\nsecond\rthird\n", sample_content}

ToolInit ==
    /\ \/ /\ example = "chat"
          /\ \E tool \in AVAILABLE_TOOLS :
                /\ active = {tool}
                /\ arguments \in
                       CASE tool = "calculator" -> {<<expression>> : expression \in ExpressionTexts}
                         [] tool = "random_number" -> RangeEnds \X RangeEnds
                         [] tool = "datetime" -> {<<>>}
                         [] OTHER -> {<<text>> : text \in ToolTexts}
          /\ files = <<>>
          /\ state = ChatInitialState
       \/ /\ example = "document_qa"
          /\ active = {"load_document"}
          /\ arguments \in {<<file_path>> : file_path \in DocumentPaths}
          /\ \E present \in SUBSET DocumentPaths : files \in [present -> FileContents]
          /\ state = [document_content |-> ""]
    /\ status = "running"
    /\ error = ""
    /\ trace = <<>>
    /\ step_calls = 0
    /\ console = "invoking"
    /\ input_line = "input"
    /\ requests = 1
    /\ printed = ""
    /\ conversation_state = ConversationStart(example)

\* the tool returned text
ToolReturn(tool, text) ==
    Return(tool, [state EXCEPT !.tool_results = DictSet(@, tool, text)])

CallCalculatorTool ==
    /\ Running("chat", "calculator")
    /\ \E outcome \in {calculator_tool(arguments[1])} :
           IF outcome.raised # ""
           THEN Raise(<<"calculator">>, outcome.raised) /\ UNCHANGED step_calls
           ELSE ToolReturn("calculator", outcome.text)

CallRandomNumberTool ==
    /\ Running("chat", "random_number")
    /\ \E number \in RandInt(int(arguments[1]).value, int(arguments[2]).value) :
           ToolReturn("random_number",
                      random_number_tool(arguments[1], arguments[2], number))

CallDatetimeTool ==
    /\ Running("chat", "datetime")
    /\ \E now \in Timestamps : ToolReturn("datetime", datetime_tool(now))

CallWordCountTool ==
    /\ Running("chat", "word_count")
    /\ ToolReturn("word_count", word_count_tool(arguments[1]))

CallReverseTextTool ==
    /\ Running("chat", "reverse_text")
    /\ ToolReturn("reverse_text", reverse_text_tool(arguments[1]))

\* main calls load_document(document_path); the script may be run again on
\* the files the run before left
CallLoadDocument ==
    /\ Running("document_qa", "load_document")
    /\ Len(trace) < MaxLoads
    /\ \E outcome \in {load_document(arguments[1], files)} :
           /\ state' = [state EXCEPT !.document_content = outcome.content]
           /\ files' = outcome.files
           /\ printed' = printed \o outcome.printed
    /\ trace' = Append(trace, "load_document")
    /\ UNCHANGED <<example, active, status, error, step_calls, console, input_line, requests,
                   conversation_state, arguments>>

ToolNext ==
    \/ CallLoadDocument
    \/ CallCalculatorTool
    \/ CallRandomNumberTool
    \/ CallDatetimeTool
    \/ CallWordCountTool
    \/ CallReverseTextTool

ToolSpec == ToolInit /\ [][ToolNext]_vars

-----------------------------------------------------------------------------
(* Properties *)

\* the loop cursor of the running example
Cursor ==
    CASE example = "reasoning" -> state.current_step
      [] example = "research" -> state.current_question_index
      [] example = "review" -> state.current_stage

\* the planned list of the running example
PlannedList ==
    CASE example = "reasoning" -> state.reasoning_steps
      [] example = "research" -> state.research_questions
      [] example = "review" -> state.review_stages

Planned == example \in {"reasoning", "research", "review"} /\ Len(trace) >= 1

LastNode == trace[Len(trace)]

Count(node) == Cardinality({i \in 1..Len(trace) : trace[i] = node})

\* C1: whatever the classification value, the routing function returns a
\* stage registered in the conditional-edge map: the handler of the value when
\* the value is in the vocabulary, handle_other (conditional workflow) or
\* handle_question (simple agent) otherwise; no run ends in a lookup error.
C1_RoutingIsTotal ==
    /\ error # "KeyError"
    /\ (example = "conditional" /\ status = "running" /\ trace = <<"analyze">>) =>
           active = {IF state.content_type \in
                           {"question", "request", "complaint", "compliment", "information", "other"}
                     THEN "handle_" \o state.content_type
                     ELSE "handle_other"}
    /\ (example = "agent" /\ status = "running" /\ trace = <<"classify">>) =>
           active = {IF state.query_type \in {"question", "creative", "technical", "math"}
                     THEN "handle_" \o state.query_type
                     ELSE "handle_question"}

C1_Witness ==
    /\ example = "conditional"
    /\ state.content_type = "poem"
    /\ trace = <<"analyze", "handle_other">>

\* C2 as stated: whenever synthesize is entered the cursor equals the number
\* of planned steps, for every planned count including zero.
C2_SynthesisAtCursorEqualCount ==
    (example \in {"reasoning", "research"} /\ status = "running" /\ active = {"synthesize"})
        => Cursor = Len(PlannedList)

\* C2 amended: the step stage and advance run once before the first test, so
\* after advance the loop exits to synthesize exactly when the cursor has
\* reached the planned count, and synthesize is entered with the cursor equal
\* to the planned count N when N >= 1 and equal to 1 when N = 0.
C2_LoopExit ==
    (example \in {"reasoning", "research"} /\ status = "running" /\ Planned)
        => /\ (active = {"synthesize"}) =>
                  /\ LastNode = "advance"
                  /\ Cursor = (IF Len(PlannedList) < 1 THEN 1 ELSE Len(PlannedList))
           /\ (LastNode = "advance") =>
                  (active = {"synthesize"} <=> Cursor >= Len(PlannedList))

C2_Witness ==
    /\ example = "reasoning"
    /\ active = {"synthesize"}
    /\ Len(state.reasoning_steps) = 3
    /\ state.current_step = 3

\* C3 as stated: with zero planned steps the pipeline goes from planning
\* straight to synthesis: the stage after planning is synthesize, the step
\* stage makes no call and records nothing, and synthesis runs once.
C3_StraightToSynthesis ==
    (example \in {"reasoning", "research"} /\ Planned /\ Len(PlannedList) = 0)
        => /\ \A i \in 1..Len(trace) : trace[i] \notin {"execute_step", "research_question", "advance"}
           /\ step_calls = 0
           /\ Count("synthesize") <= 1

\* C3 amended: with zero planned steps the step stage and advance are each
\* entered once before synthesis, but the step stage returns at its guard: no
\* per-step text-generation call is made, no step is completed, no finding is
\* appended, the cursor ends at 1 and synthesis runs exactly once.
C3_ZeroStepsSkipBody ==
    (example \in {"reasoning", "research"} /\ Planned /\ Len(PlannedList) = 0)
        => /\ step_calls = 0
           /\ example = "research" => state.findings = <<>>
           /\ example = "reasoning" =>
                  \A i \in 1..Len(state.reasoning_steps) :
                      state.reasoning_steps[i].status # "completed"
           /\ Count("execute_step") + Count("research_question") <= 1
           /\ Count("advance") <= 1
           /\ Count("synthesize") <= 1
           /\ status = "done" =>
                  /\ Count("synthesize") = 1
                  /\ Cursor = 1
                  /\ SubSeq(trace, 2, 4) \in
                         {<<"execute_step", "advance", "synthesize">>,
                          <<"research_question", "advance", "synthesize">>}

C3_Witness ==
    /\ example = "research"
    /\ status = "done"
    /\ state.research_questions = <<>>
    /\ trace = <<"generate_questions", "research_question", "advance", "synthesize", "recommend">>

\* C4: once planning has run, every committed advance increases the cursor by
\* exactly 1, the step stage leaves it alone, and no step of the run ever
\* decreases or resets it.
C4_CursorAdvancesByOne ==
    [][Planned =>
          /\ Cursor' >= Cursor
          /\ (status' # "error" /\ LastNode' = "advance") => Cursor' = Cursor + 1
          /\ (status' # "error" /\ LastNode' # "advance") => Cursor' = Cursor]_vars

C4_Witness ==
    /\ example = "reasoning"
    /\ Planned
    /\ LastNode = "advance"
    /\ state.current_step = 3
    /\ active = {"execute_step"}

\* C5 as stated: a run of an iterative pipeline in which every
\* text-generation call returns (and every score parses) reaches the terminal
\* stage: it never ends any other way.
C5_RunReachesTerminalStage ==
    (example \in {"reasoning", "research", "review"} /\ status = "error") => error \in {"llm", "ValueError"}

\* C6: after planning no later stage changes the planned list: the length of
\* reasoning_steps, research_questions and review_stages stay as planned.
C6_PlannedListFixed ==
    [][Planned =>
          /\ Len(PlannedList') = Len(PlannedList)
          /\ example \in {"research", "review"} => PlannedList' = PlannedList]_vars

C6_Witness ==
    /\ example = "research"
    /\ status = "done"
    /\ Len(state.research_questions) = 3
    /\ Len(state.findings) = 3

\* C7 as stated: a code-review run in which every call returns and every
\* score parses executes the five review stages once each, in order, and ends
\* with exactly their five keys in the reviews mapping.
C7_FiveStagesOnceInOrder ==
    (example = "review" /\ status # "running" /\ error \notin {"llm", "ValueError"})
        => /\ status = "done"
           /\ SelectSeq(trace, LAMBDA n : n \in ReviewNodes) =
                  <<"review_syntax", "review_style", "review_logic", "review_security",
                    "review_optimization">>
           /\ DictKeys(state.reviews) = {"syntax", "style", "logic", "security", "optimization"}

\* C8 as stated: whatever text the review stage receives, it records a score
\* that is an integer in 0..10.
C8_ScoreInRange ==
    (example = "review" /\ status # "running")
        => /\ Len(state.reviews) = 1
           /\ \A i \in 1..Len(state.reviews) : state.reviews[i].value.score \in 0..10

\* C9 as stated: whatever the recommendations text, generate_recommendations
\* sets confidence_score to an integer in 1..10.
C9_ConfidenceInRange ==
    (example = "research" /\ status # "running")
        => /\ LastNode = "recommend"
           /\ status = "done"
           /\ state.confidence_score \in 1..10

\* C10 as stated: parsing never fails a stage: every parsing stage completes
\* on every response text.
C10_ParsingNeverFails == status # "error"

\* C12 as stated: in every script's console loop a blank line (empty or
\* whitespace only) is ignored: reading it starts no invocation and no
\* text-generation call, changes no state, and the loop is at its prompt again.
C12_BlankInputIgnored ==
    [][(requests' = requests + 1 /\ Strip(input_line') = "")
           => /\ console' = "prompt"
              /\ UNCHANGED <<state, trace, status, active, step_calls, conversation_state>>]_vars

\* C13: in every script's console loop a line equal to quit, exit or q in any
\* letter case ends the loop at once: reading it starts no invocation and no
\* text-generation call, and once the loop has ended nothing more is read or
\* run.
C13_QuitWordEndsLoop ==
    [][/\ console # "exited"
       /\ (requests' = requests + 1 /\ Lower(input_line') \in {"quit", "exit", "q"})
              => /\ console' = "exited"
                 /\ printed' = "Goodbye!"
                 /\ UNCHANGED <<state, trace, status, active, step_calls,
                                conversation_state>>]_vars

\* a mixed-case quit word ended the loop after an earlier request had been
\* answered
C13_Witness ==
    /\ console = "exited"
    /\ input_line = "Exit"
    /\ printed = "Goodbye!"
    /\ requests = 2
    /\ status = "done"

\* C14 as stated: whenever the invocation of a request has raised, main
\* prints the error with the hint to check the service and the model, does
\* not invoke the request again, and is back at its prompt, the loop not
\* ended.
C14_FailureReportedLoopContinues ==
    [][(console = "invoking" /\ status = "error")
           => /\ console' = "prompt"
              /\ printed' = ErrorReport
              /\ UNCHANGED <<state, trace, status, active, requests>>]_vars

\* C15 as stated: the state passed to each invocation is built from the
\* request's own line alone: nothing written while an earlier request was
\* processed is in it.
C15_StateFreshPerRequest ==
    (console = "invoking" /\ status = "running" /\ trace = <<>>)
        => state = initial_state(example, input_line, ConversationStart(example))

\* C15 as amended: in every script but the two that keep a conversation the
\* state of an invocation is built from the request's line alone; in
\* chat_with_tools the record of the earlier turns is passed again with
\* user_input, needs_tool, selected_tool and tool_results reset, so only the
\* messages and the last response carry over; conversation_memory carries
\* over its history.
C15_OnlyConversationCarriedOver ==
    (console = "invoking" /\ status = "running" /\ trace = <<>>) =>
        CASE example = "chat" ->
                 /\ state = [ConversationStart("chat") EXCEPT !.user_input = input_line,
                                                              !.messages = state.messages,
                                                              !.response = state.response]
                 /\ state.messages = conversation_state.messages
                 /\ Len(state.messages) % 2 = 1
          [] example = "conversation_memory" ->
                 /\ state = [ChainInitialState EXCEPT !.question = input_line,
                                                      !.history = state.history]
                 /\ state.history = conversation_state.history
          [] OTHER ->
                 state = initial_state(example, input_line, ConversationStart(example))

\* the second turn of a chat starts with the messages of the first turn, in
\* which a tool was used
C15_Witness ==
    /\ console = "invoking"
    /\ status = "running"
    /\ trace = <<>>
    /\ example = "chat"
    /\ requests = 2
    /\ Len(state.messages) = 3
    /\ conversation_state.response = "resp"

\* C16: in the branching examples exactly one handler runs per invocation,
\* the one the routing function names for the classified field: the simple
\* agent runs classify, one of its four handlers, and ends; the conditional
\* workflow runs analyze, one of its six handlers, apply_sentiment, and ends
\* with processing_path = analysis, that handler, sentiment_filter and with
\* one key in results.
C16_ExactlyOneHandler ==
    /\ example \in {"agent", "conditional"} =>
           Len(SelectSeq(trace, LAMBDA n : n \in HandlerNames \cup DOMAIN AgentHandlers)) <= 1
    /\ (example = "agent" /\ status = "done") =>
           /\ Len(trace) = 2
           /\ trace[1] = "classify"
           /\ trace[2] \in DOMAIN AgentHandlers
           /\ trace[2] = (IF state.query_type \in {"question", "creative", "technical", "math"}
                          THEN "handle_" \o state.query_type
                          ELSE "handle_question")
    /\ (example = "conditional" /\ status = "done") =>
           /\ Len(trace) = 3
           /\ trace[1] = "analyze"
           /\ trace[2] \in HandlerNames
           /\ trace[2] = (IF state.content_type \in
                                {"question", "request", "complaint", "compliment",
                                 "information", "other"}
                          THEN "handle_" \o state.content_type
                          ELSE "handle_other")
           /\ trace[3] = "apply_sentiment"
           /\ state.processing_path =
                  <<"analysis", SubSeq(trace[2], 8, Len(trace[2])) \o "_handler",
                    "sentiment_filter">>
           /\ Cardinality(DictKeys(state.results)) = 1
           /\ Len(state.results) = 1

\* a complaint went through its handler and then the sentiment filter
C16_Witness ==
    /\ example = "conditional"
    /\ status = "done"
    /\ trace = <<"analyze", "handle_complaint", "apply_sentiment">>
    /\ state.processing_path = <<"analysis", "complaint_handler", "sentiment_filter">>

\* C17: in a chat-with-tools turn execute_tool runs if and only if
\* analyze_user_input set needs_tool; generate_response runs exactly once in
\* every completed turn and is the last stage, after execute_tool when that
\* stage runs.
C17_ToolThenResponse ==
    example = "chat" =>
        /\ Count("execute_tool") <= 1
        /\ Count("execute_tool") = 1 => state.needs_tool
        /\ Count("generate_response") >= 1 => (state.needs_tool <=> Count("execute_tool") = 1)
        /\ status = "done" =>
               trace = IF state.needs_tool
                       THEN <<"analyze", "execute_tool", "generate_response">>
                       ELSE <<"analyze", "generate_response">>

\* a turn that used the calculator completed
C17_Witness ==
    /\ example = "chat"
    /\ status = "done"
    /\ state.needs_tool
    /\ state.selected_tool = "calculator"
    /\ trace = <<"analyze", "execute_tool", "generate_response">>

\* C18: in a multi-step reasoning run with N >= 1 planned steps the steps are
\* executed once each in index order: execute_step completes the pending
\* step under the cursor when all steps before it are completed and no step
\* after it is, a status only ever changes from pending to completed, and
\* synthesize runs only when all N steps are completed, after N executions.
C18_StepsOnceInOrder ==
    [][(example = "reasoning" /\ Len(trace) >= 1 /\ Len(state.reasoning_steps) >= 1)
           => LET N == Len(state.reasoning_steps)
                  i == state.current_step + 1
                  Completed(st) ==
                      {j \in 1..N : st.reasoning_steps[j].status = "completed"}
              IN  /\ Len(state'.reasoning_steps) = N
                  /\ \A j \in 1..N :
                         state'.reasoning_steps[j].status # state.reasoning_steps[j].status
                             => /\ state.reasoning_steps[j].status = "pending"
                                /\ state'.reasoning_steps[j].status = "completed"
                                /\ j = i
                                /\ trace' = Append(trace, "execute_step")
                  /\ (trace' = Append(trace, "execute_step") /\ status' # "error")
                         => /\ i \in 1..N
                            /\ Completed(state) = 1..(i - 1)
                            /\ Completed(state') = 1..i
                            /\ Count("execute_step") = i - 1
                  /\ (trace' = Append(trace, "synthesize"))
                         => /\ Completed(state) = 1..N
                            /\ Count("execute_step") = N]_vars

\* a run with three planned steps completed
C18_Witness ==
    /\ example = "reasoning"
    /\ status = "done"
    /\ Len(state.reasoning_steps) = 3
    /\ \A j \in 1..3 : state.reasoning_steps[j].status = "completed"
    /\ Count("execute_step") = 3
    /\ LastNode = "synthesize"

\* C19: in the creative-writing pipeline the six stages run once each in the
\* order analyze, draft, refine, enhance, polish, feedback, with no
\* branching; every stage reads only the prompt of the initial state or
\* fields that an earlier stage of the run wrote; no field is removed from
\* the state.
C19_SixStagesInOrder ==
    LET CreativeOrder == <<"analyze", "draft", "refine", "enhance", "polish", "feedback">>
        WrittenBefore(i) == UNION {CreativeWrites[trace[j]] : j \in 1..(i - 1)}
    IN  example = "creative" =>
            /\ Len(trace) <= Len(CreativeOrder)
            /\ \A i \in 1..Len(trace) :
                   /\ trace[i] = CreativeOrder[i]
                   /\ CreativeReads[trace[i]] \subseteq {"prompt"} \cup WrittenBefore(i)
            /\ Cardinality(active) <= 1
            /\ status = "done" => trace = CreativeOrder
            /\ DOMAIN state = DOMAIN CreativeInitialState

\* a run completed with every stage's text in the state
C19_Witness ==
    /\ example = "creative"
    /\ status = "done"
    /\ trace = <<"analyze", "draft", "refine", "enhance", "polish", "feedback">>
    /\ state.content_type = "poem"
    /\ state.final_content = "r"
    /\ Len(state.feedback) = 2

\* C20 as stated: calculator_tool never raises, whatever the text: it returns
\* a string that starts with "Calculator result: " followed by the
\* expression, or a string that starts with "Calculator error:".
C20_CalculatorNeverRaises ==
    (example = "chat" /\ "calculator" \in active \cup {trace[i] : i \in 1..Len(trace)})
        => /\ status # "error"
           /\ status = "done" =>
                  \/ StartsWith(state.tool_results[1].value, "Calculator result: ")
                  \/ StartsWith(state.tool_results[1].value, "Calculator error:")

\* C21: random_number_tool never raises.  For bounds that int() converts,
\* with min_val <= max_val, it returns "Random number between min_val and
\* max_val: n" with min_val <= n <= max_val; for a bound that int() rejects,
\* or with min_val > max_val, it returns a string that starts with
\* "Random number error:".
C21_RandomNumberNeverRaises ==
    (example = "chat" /\ "random_number" \in active \cup {trace[i] : i \in 1..Len(trace)})
        => /\ status # "error"
           /\ status = "done" =>
                  LET a == int(arguments[1])
                      b == int(arguments[2])
                      text == state.tool_results[1].value
                      drawn == int([type |-> "str", int |-> 0, str |-> Split(text, ": ")[2]])
                  IN  /\ DictKeys(state.tool_results) = {"random_number"}
                      /\ IF ~a.raised /\ ~b.raised /\ a.value <= b.value
                         THEN /\ StartsWith(text, "Random number between " \o IntToStr(a.value)
                                                      \o " and " \o IntToStr(b.value) \o ": ")
                              /\ ~drawn.raised
                              /\ a.value <= drawn.value
                              /\ drawn.value <= b.value
                         ELSE StartsWith(text, "Random number error:")

\* the tool returned a number for a range given as strings, and an error
\* string is what it returns for an empty range
C21_Witness ==
    /\ "random_number" \in active \cup {trace[i] : i \in 1..Len(trace)}
    /\ status = "done"
    /\ arguments = <<[type |-> "str", int |-> 0, str |-> "-3"],
                     [type |-> "str", int |-> 0, str |-> " 5 "]>>
    /\ state.tool_results[1].value = "Random number between -3 and 5: 1"

\* C22: reverse_text_tool returns "Reversed text: " followed by the
\* characters of its input in reverse order ("Hello" gives "olleH"); the
\* reversed payload is as long as the input, and reversing it again gives
\* the input back.
C22_ReversedText ==
    (example = "chat" /\ status = "done" /\ trace = <<"reverse_text">>)
        => LET text == arguments[1]
               result == state.tool_results[1].value
               payload == SubSeq(result, Len("Reversed text: ") + 1, Len(result))
           IN  /\ StartsWith(result, "Reversed text: ")
               /\ Len(payload) = Len(text)
               /\ \A i \in 1..Len(text) : Char(payload, i) = Char(text, Len(text) + 1 - i)
               /\ reverse_text_tool(payload) = "Reversed text: " \o text
               /\ text = "Hello" => payload = "olleH"

\* the tool was called with "Hello"
C22_Witness ==
    /\ status = "done"
    /\ trace = <<"reverse_text">>
    /\ arguments = <<"Hello">>
    /\ state.tool_results = <<[key |-> "reverse_text", value |-> "Reversed text: olleH"]>>


\* C23: load_document on a path that holds no file creates the file with the
\* sample document and returns the text it wrote, leaving every other file
\* alone; on a path that holds a file it returns the text of the file and
\* changes no file; a load that follows another on the same path returns the
\* same text and does not write.
C23_LoadDocument ==
    [][(example = "document_qa" /\ trace' # trace) =>
           LET file_path == arguments[1]
           IN  /\ file_path \notin DOMAIN files =>
                      /\ DOMAIN files' = DOMAIN files \cup {file_path}
                      /\ files'[file_path] = sample_content
                      /\ \A q \in DOMAIN files : files'[q] = files[q]
                      /\ state'.document_content = files'[file_path]
               /\ file_path \in DOMAIN files =>
                      /\ files' = files
                      /\ state'.document_content =
                             Replace(Replace(files[file_path], "\r\n", "\n"), "\r", "\n")
               /\ trace # <<>> =>
                      /\ files' = files
                      /\ state'.document_content = state.document_content]_vars

C23_Witness ==
    /\ example = "document_qa"
    /\ trace = <<"load_document", "load_document">>
    /\ arguments = <<"sample_document.txt">>
    /\ printed = "File sample_document.txt not found. Creating a sample document...\n"
    /\ DOMAIN files = {"sample_document.txt", "notes.txt"}
    /\ files["sample_document.txt"] = sample_content
    /\ files["notes.txt"] = "first\r\nsecond\rthird\n"
    /\ state.document_content = sample_content


\* C24: while a request of the streaming chat is answered and once its
\* stream has ended, the accumulated response is the fragments delivered so
\* far joined in the order of arrival, each one once (a fragment equal to an
\* earlier one is kept), and the terminal shows the same fragments in the
\* same order after "Assistant: ".
C24_StreamedResponse ==
    (example = "streaming_chat" /\ console = "invoking" /\ status \in {"running", "done"}) =>
        LET RECURSIVE Joined(_)
            Joined(chunks) == IF chunks = <<>> THEN "" ELSE Head(chunks) \o Joined(Tail(chunks))
        IN  /\ state.response = Joined(trace)
            /\ printed = "Assistant: " \o Joined(trace)
                             \o (IF status = "done"
                                 THEN "\n--------------------------------------------------\n"
                                 ELSE "")

C24_Witness ==
    /\ example = "streaming_chat"
    /\ console = "invoking"
    /\ status = "done"
    /\ trace = <<"lo", "lo", " ">>
    /\ state.response = "lolo "


\* C25 as stated: in the code-review pipeline, whenever a review_<X> stage is
\* about to run the cursor names it, review_stages[current_stage] = X, and
\* summarize is scheduled only when current_stage >= len(review_stages).
C25_CursorNamesStage ==
    (example = "review" /\ status = "running") =>
        /\ \A node \in active \cap ReviewNodes :
               /\ state.current_stage < Len(state.review_stages)
               /\ node = "review_" \o state.review_stages[state.current_stage + 1]
        /\ "summarize" \in active => state.current_stage >= Len(state.review_stages)


\* C26: in the chat-with-tools session the message history starts with the
\* assistant's welcome message, has odd length with roles alternating
\* assistant, user, assistant, ..., grows only when a turn completes, then by
\* exactly the user message of the turn followed by the assistant response,
\* and is left as it was by every other step, a turn that fails included: its
\* length is 1 + 2k after k completed turns and no earlier message changes.
C26_MessageHistory ==
    /\ [](example = "chat" =>
              LET messages == conversation_state.messages
              IN  /\ messages[1] = [role |-> "assistant", content |-> "Hello!"]
                  /\ Len(messages) % 2 = 1
                  /\ Len(messages) <= 1 + 2 * requests
                  /\ \A i \in 1..Len(messages) :
                         messages[i].role = IF i % 2 = 1 THEN "assistant" ELSE "user")
    /\ [][example = "chat" =>
              conversation_state'.messages =
                  IF console = "invoking" /\ status = "done" /\ console' = "prompt"
                  THEN conversation_state.messages
                           \o <<[role |-> "user", content |-> input_line],
                                [role |-> "assistant", content |-> state.response]>>
                  ELSE conversation_state.messages]_vars

\* a turn that completed, then a turn that failed
C26_Witness ==
    /\ example = "chat"
    /\ console = "prompt"
    /\ requests = 2
    /\ status = "error"
    /\ printed = ErrorReport
    /\ conversation_state.messages =
           <<[role |-> "assistant", content |-> "Hello!"],
             [role |-> "user", content |-> "hello"],
             [role |-> "assistant", content |-> "resp"]>>


\* C27: in the chat-with-tools pipeline, once analyze_user_input has run,
\* selected_tool is a registered tool or "none", whatever the analysis text;
\* when the tool stage runs with selected_tool "none" it does not fail (it
\* calls no tool and no text generation), leaves "error" -> "Tool none not
\* found" as the only entry of tool_results and hands over to
\* generate_response; tool_results is empty when a turn has completed.
C27_SelectedToolRegistered ==
    (example = "chat" /\ Len(trace) >= 1 /\ ~(Len(trace) = 1 /\ status = "error")) =>
        /\ state.selected_tool \in AVAILABLE_TOOLS \cup {"none"}
        /\ (active = {"execute_tool"} /\ state.selected_tool = "none") =>
               ~CallsLLM(example, "execute_tool", state)
        /\ (Len(trace) = 2 /\ trace[2] = "execute_tool" /\ state.selected_tool = "none") =>
               /\ status = "running"
               /\ active = {"generate_response"}
               /\ state.tool_results = <<[key |-> "error", value |-> "Tool none not found"]>>
        /\ status = "done" =>
               /\ LastNode = "generate_response"
               /\ state.tool_results = <<>>

C27_Witness ==
    /\ example = "chat"
    /\ status = "done"
    /\ trace = <<"analyze", "execute_tool", "generate_response">>
    /\ state.needs_tool
    /\ state.selected_tool = "none"
    /\ state.tool_results = <<>>


\* C28: in the research pipeline at most 5 questions are kept, however many
\* list lines the generated text has; the findings are a prefix of the
\* questions, findings[i] holding index i and the i-th kept question, so no
\* question is researched twice and each research call adds one finding; when
\* synthesize_findings runs, and from then on, there is exactly one finding
\* per kept question, in question order.
C28_OneFindingPerQuestion ==
    (example = "research" /\ Len(trace) >= 1 /\ ~(Len(trace) = 1 /\ status = "error")) =>
        /\ Len(state.research_questions) <= 5
        /\ Len(state.findings) <= Len(state.research_questions)
        /\ \A i \in 1..Len(state.findings) :
               /\ state.findings[i].index = i - 1
               /\ state.findings[i].question = state.research_questions[i]
        /\ step_calls \in {Len(state.findings), Len(state.findings) + 1}
        /\ step_calls <= Len(state.research_questions)
        /\ ("synthesize" \in active \/ \E i \in 1..Len(trace) : trace[i] = "synthesize") =>
               Len(state.findings) = Len(state.research_questions)

C28_Witness ==
    /\ example = "research"
    /\ active = {"synthesize"}
    /\ Len(state.research_questions) = 5
    /\ Len(state.findings) = 5
    /\ state.findings[5].index = 4
    /\ state.findings[5].question = "s5"
    /\ step_calls = 5


C30_SentimentPrefix ==
    [][(example = "conditional" /\ status = "running" /\ active = {"apply_sentiment"}
            /\ trace' # trace) =>
           LET response == state.results[Len(state.results)].value
               output == state'.final_output
               prefix == CASE state.sentiment = "negative" ->
                                  "I understand this might be frustrating. "
                           [] state.sentiment = "positive" -> "I'm glad to help with this! "
                           [] OTHER -> ""
           IN  /\ Len(state.results) = 1
               /\ output = prefix \o response
               /\ SubSeq(output, Len(output) - Len(response) + 1, Len(output)) = response
               /\ state'.processing_path = Append(state.processing_path, "sentiment_filter")
               /\ \A field \in DOMAIN state \ {"final_output", "processing_path"} :
                      state'[field] = state[field]
               /\ DOMAIN state' = DOMAIN state]_vars

C30_Witness ==
    /\ example = "conditional"
    /\ status = "done"
    /\ trace = <<"analyze", "handle_complaint", "apply_sentiment">>
    /\ state.sentiment = "negative"
    /\ state.results = <<[key |-> "complaint_response", value |-> "resp"]>>
    /\ state.final_output = "I understand this might be frustrating. resp"

====
